---- MODULE Spec2Model ----
(***************************************************************************)
(* A model of scholar-scout's extraction-and-classification pipeline       *)
(* (src/src/scholar_scout/classifier.py).                                  *)
(*                                                                         *)
(* Python strings are modelled as sequences of one-character strings, so   *)
(* that lower(), strip(), substring tests and percent-decoding are         *)
(* computed character by character, as the library computes them.          *)
(***************************************************************************)
EXTENDS Integers, Sequences, FiniteSets, TLC

VARIABLES
    \* ---- ScholarClassifier instance state and one classify_papers call
    processed_titles,   \* self._processed_titles
    processed_urls,     \* self._processed_urls
    email_messages,     \* the batch of the running call
    ei,                 \* index of the email being processed
    papers,             \* _extract_paper_metadata(content) of email ei
    pj,                 \* index of the candidate being filtered
    filtered_papers,    \* filtered_papers of email ei
    pk,                 \* index of the filtered paper being classified
    all_results,        \* all_results of the running call
    pc,                 \* position in classify_papers
    \* ---- observation of the running call (no influence on the code)
    survivors,          \* every candidate that passed filtering, in order
    issued,             \* per completion call issued: the paper and where it was listed
    sent,               \* per completion call answered: the paper, and whether it succeeded
    last_response,      \* the completion service's answer to the last call
    last_filter,        \* what the last filtering step decided, and on what
    accepted,           \* the candidates this instance ever let through
    repeat,             \* the running call has the previous call's batch
    prev_count,         \* how many results the previous call returned
    \* ---- application of a pure function to a chosen input
    arg,                \* the input
    ret,                \* the output
    step,               \* "in" before, "out" after the application
    \* ---- one SlackNotifier serving one call
    paper_results,      \* the argument of notify_matches
    papers_by_topic,    \* the argument of send_weekly_update
    ni,                 \* index of the result (or of the channel) being handled
    nj,                 \* index of the matched topic being handled
    posted,             \* per chat_postMessage call: what was posted and how it ended
    logged,             \* per logger.error call: the channel it names
    npc,                \* position in the notifier: the method and where in it
    \* ---- one EmailClient serving one fetch_scholar_alerts call
    target_subjects,    \* email_filter.subject of config/search_criteria.yml
    all_message_numbers,\* all_message_numbers of the running call
    examined,           \* per message number iterated: how its fetch ended
    emails,             \* emails of the running call
    fpc,                \* position in fetch_scholar_alerts
    delete_result,      \* how a call of delete_old_emails on the client ended
    delete_commands,    \* the IMAP commands that call issued, in order
    \* ---- one ScholarScoutMCPServer process serving tool calls and reads
    email_cache,        \* self._email_cache, with who fetched the list and when
    paper_cache,        \* self._paper_cache, with who classified the list
    cache_timestamp,    \* self._cache_timestamp
    now,                \* datetime.now(), in seconds since the process started
    tasks,              \* the requests taken, in order of arrival: their coroutines
    classifiers         \* how many ScholarClassifier instances it has constructed

vars == <<processed_titles, processed_urls, email_messages, ei, papers, pj,
          filtered_papers, pk, all_results, pc, survivors, issued, sent,
          last_response, last_filter, accepted, repeat, prev_count, arg, ret,
          step, paper_results, papers_by_topic, ni, nj, posted, logged, npc,
          target_subjects, all_message_numbers, examined, emails, fpc,
          delete_result, delete_commands, email_cache, paper_cache,
          cache_timestamp, now, tasks, classifiers>>

classifyVars == <<processed_titles, processed_urls, email_messages, ei, papers,
                  pj, filtered_papers, pk, all_results, pc, survivors, issued,
                  sent, last_response, last_filter, accepted, repeat, prev_count>>

fnVars == <<arg, ret, step>>

notifyVars == <<paper_results, papers_by_topic, ni, nj, posted, logged, npc>>

fetchVars == <<target_subjects, all_message_numbers, examined, emails, fpc,
               delete_result, delete_commands>>

serverVars == <<email_cache, paper_cache, cache_timestamp, now, tasks,
                classifiers>>

(***************************************************************************)
(* Bounds of the model.                                                    *)
(***************************************************************************)
MaxEmails == 2      \* emails in one batch
MaxNodes == 6       \* elements in one HTML document
MaxUrlLen == 4      \* characters of a direct URL
MaxTopics == 3      \* entries of a relevant_topics list

(***************************************************************************)
(* Python str operations.                                                  *)
(***************************************************************************)
\* an optional value: Python's None, or a value
None == [has |-> FALSE, v |-> <<>>]
Some(x) == [has |-> TRUE, v |-> x]

UpperCase == <<"A","B","C","D","E","F","G","H","I","J","K","L","M",
               "N","O","P","Q","R","S","T","U","V","W","X","Y","Z">>
LowerCase == <<"a","b","c","d","e","f","g","h","i","j","k","l","m",
               "n","o","p","q","r","s","t","u","v","w","x","y","z">>

\* str.lower() on one ASCII character
LowerChar(c) ==
    IF \E i \in 1..26 : UpperCase[i] = c
    THEN LowerCase[CHOOSE i \in 1..26 : UpperCase[i] = c]
    ELSE c

\* str.lower()
Lower(s) == [i \in 1..Len(s) |-> LowerChar(s[i])]

\* str.isspace() on one character (ASCII whitespace)
IsSpace(c) == c \in {" ", "\t", "\n", "\r"}

\* str.strip(): leading and trailing whitespace removed
Strip(s) ==
    LET keep == {i \in 1..Len(s) : ~IsSpace(s[i])}
    IN  IF keep = {} THEN <<>>
        ELSE LET lo == CHOOSE i \in keep : \A j \in keep : i <= j
                 hi == CHOOSE i \in keep : \A j \in keep : j <= i
             IN  SubSeq(s, lo, hi)

\* `sub in s` for two str
Contains(sub, s) ==
    \E i \in 0..(Len(s) - Len(sub)) : SubSeq(s, i + 1, i + Len(sub)) = sub

\* index of the first occurrence of character c in s, 0 when absent (str.find + 1)
Find(c, s) ==
    IF \E i \in 1..Len(s) : s[i] = c
    THEN CHOOSE i \in 1..Len(s) : s[i] = c /\ \A j \in 1..(i - 1) : s[j] # c
    ELSE 0

\* "".join(parts)
RECURSIVE Join(_)
Join(parts) ==
    IF parts = <<>> THEN <<>> ELSE Head(parts) \o Join(Tail(parts))

\* s.split(c): the pieces of s between occurrences of character c
RECURSIVE Split(_, _)
Split(s, c) ==
    LET i == Find(c, s)
    IN  IF i = 0 THEN <<s>>
        ELSE <<SubSeq(s, 1, i - 1)>> \o Split(SubSeq(s, i + 1, Len(s)), c)

\* s.replace(a, b) for single characters
Replace(s, a, b) == [i \in 1..Len(s) |-> IF s[i] = a THEN b ELSE s[i]]

(***************************************************************************)
(* urllib.parse as _extract_paper_metadata uses it.                        *)
(***************************************************************************)
\* the printable ASCII characters, code points 32..126 (the double quote, the
\* backslash and the backtick are written as named tokens)
Ascii == <<" ","!","DQUOTE","#","$","%","&","'","(",")","*","+",",","-",".","/",
           "0","1","2","3","4","5","6","7","8","9",":",";","<","=",">","?",
           "@","A","B","C","D","E","F","G","H","I","J","K","L","M","N","O",
           "P","Q","R","S","T","U","V","W","X","Y","Z","[","BACKSLASH","]","^","_",
           "BACKTICK","a","b","c","d","e","f","g","h","i","j","k","l","m","n","o",
           "p","q","r","s","t","u","v","w","x","y","z","{","|","}","~">>

HexUpper == <<"0","1","2","3","4","5","6","7","8","9","A","B","C","D","E","F">>
HexLower == <<"0","1","2","3","4","5","6","7","8","9","a","b","c","d","e","f">>

IsHex(c) == \E i \in 1..16 : HexUpper[i] = c \/ HexLower[i] = c

HexVal(c) == (CHOOSE i \in 1..16 : HexUpper[i] = c \/ HexLower[i] = c) - 1

\* ord(c) of a printable ASCII character
Ord(c) == (CHOOSE i \in 1..95 : Ascii[i] = c) + 31

\* the character a decoded byte stands for: bytes.decode("utf-8", "replace") of
\* one byte.  A byte of 128 or more that starts no valid sequence decodes to
\* U+FFFD; control characters are kept as one token (the alphabets of this
\* model produce neither).
Chr(n) ==
    IF n \in 32..126 THEN Ascii[n - 31]
    ELSE IF n >= 128 THEN "U+FFFD"
    ELSE "U+CTRL"

\* urllib.parse.unquote: every %XX with two hex digits becomes its character,
\* any other % is kept
RECURSIVE Unquote(_)
Unquote(s) ==
    IF s = <<>> THEN <<>>
    ELSE IF s[1] = "%" /\ Len(s) >= 3 /\ IsHex(s[2]) /\ IsHex(s[3])
         THEN <<Chr(16 * HexVal(s[2]) + HexVal(s[3]))>> \o Unquote(SubSeq(s, 4, Len(s)))
         ELSE <<s[1]>> \o Unquote(Tail(s))

\* urllib.parse.quote(s, safe=""): the percent-encoding of s (how the alert
\* redirect wrapper carries the direct URL)
IsUnreserved(c) ==
    \/ \E i \in 1..26 : UpperCase[i] = c \/ LowerCase[i] = c
    \/ c \in {"0","1","2","3","4","5","6","7","8","9","_",".","-","~"}

QuoteChar(c) ==
    IF IsUnreserved(c) THEN <<c>>
    ELSE <<"%", HexUpper[(Ord(c) \div 16) + 1], HexUpper[(Ord(c) % 16) + 1]>>

Quote(s) == Join([i \in 1..Len(s) |-> QuoteChar(s[i])])

\* urlsplit's removal of tab and newline characters
RemoveUnsafe(url) == SelectSeq(url, LAMBDA c : c \notin {"\t", "\n", "\r"})

\* the part of url before the first occurrence of any character of stops
UpTo(url, stops) ==
    IF \E i \in 1..Len(url) : url[i] \in stops
    THEN SubSeq(url, 1, (CHOOSE i \in 1..Len(url) :
                            url[i] \in stops /\ \A j \in 1..(i - 1) : url[j] \notin stops) - 1)
    ELSE url

\* urlsplit: what follows "scheme:" (the whole url when it has no scheme)
AfterScheme(url) ==
    LET i == Find(":", url)
        isScheme == /\ i > 1
                    /\ \E k \in 1..26 : UpperCase[k] = url[1] \/ LowerCase[k] = url[1]
                    /\ \A j \in 1..(i - 1) :
                          \/ \E k \in 1..26 : UpperCase[k] = url[j] \/ LowerCase[k] = url[j]
                          \/ url[j] \in {"0","1","2","3","4","5","6","7","8","9","+","-","."}
    IN  IF isScheme THEN SubSeq(url, i + 1, Len(url)) ELSE url

\* urlsplit: the network location, present when the rest starts with "//"
Netloc(url) ==
    LET rest == AfterScheme(RemoveUnsafe(url))
    IN  IF Len(rest) >= 2 /\ rest[1] = "/" /\ rest[2] = "/"
        THEN UpTo(SubSeq(rest, 3, Len(rest)), {"/", "?", "#"})
        ELSE <<>>

\* urlparse raises ValueError("Invalid IPv6 URL") on an unbalanced bracket
UrlparseRaises(url) ==
    LET n == Netloc(url)
    IN  (Find("[", n) # 0) # (Find("]", n) # 0)

\* urlparse(url).query: what lies between the first "?" and the fragment
UrlQuery(url) ==
    LET nofrag == UpTo(AfterScheme(RemoveUnsafe(url)), {"#"})
        q == Find("?", nofrag)
    IN  IF q = 0 THEN <<>> ELSE SubSeq(nofrag, q + 1, Len(nofrag))

\* urllib.parse.parse_qsl: the <<name, value>> pairs of a query string; a field
\* without "=" or with a blank value is dropped, "+" is a space, and names and
\* values are percent-decoded
ParseQsl(qs) ==
    LET fields == Split(qs, "&")
        good(f) == /\ f # <<>>
                   /\ Find("=", f) # 0
                   /\ Find("=", f) < Len(f)
        pair(f) == LET e == Find("=", f)
                   IN  << Unquote(Replace(SubSeq(f, 1, e - 1), "+", " ")),
                          Unquote(Replace(SubSeq(f, e + 1, Len(f)), "+", " ")) >>
        kept == SelectSeq(fields, good)
    IN  [i \in 1..Len(kept) |-> pair(kept[i])]

\* parse_qs(query)[name][0], None when name is no key of parse_qs(query)
FirstParam(qs, name) ==
    LET ps == ParseQsl(qs)
    IN  IF \E i \in 1..Len(ps) : ps[i][1] = name
        THEN Some(ps[CHOOSE i \in 1..Len(ps) :
                        ps[i][1] = name /\ \A j \in 1..(i - 1) : ps[j][1] # name][2])
        ELSE None

\* the clean-up keeping a url only when the href carries a `url` parameter
CleanUrlWrapperOnly(href) ==
    LET url == IF href.has THEN href.v ELSE <<>>
    IN  IF url = <<>> THEN <<>>
        ELSE IF UrlparseRaises(url) THEN <<>>
        ELSE LET p == FirstParam(UrlQuery(url), <<"u","r","l">>)
             IN  IF p.has THEN Unquote(p.v) ELSE <<>>

\* the url of a record, from the anchor's href attribute (None when absent)
CleanUrl(href) ==
    LET url == IF href.has THEN href.v ELSE <<>>
    IN  IF url = <<>> THEN <<>>
        ELSE IF UrlparseRaises(url) THEN <<>>
        ELSE LET p == FirstParam(UrlQuery(url), <<"u","r","l">>)
             IN  IF p.has THEN Unquote(p.v) ELSE url

(***************************************************************************)
(* HTML documents and _extract_paper_metadata.                             *)
(*                                                                         *)
(* A document is the sequence of its h3 and div elements in document       *)
(* order, the order find_all and find_next walk.  An element carries the   *)
(* text pieces inside it; an h3 also says whether it holds an anchor and   *)
(* the anchor's href attribute (None when absent).                         *)
(***************************************************************************)
H3(pieces, href) == [tag |-> "h3", anchor |-> TRUE, text |-> pieces, href |-> href]
H3NoAnchor == [tag |-> "h3", anchor |-> FALSE, text |-> <<>>, href |-> None]
Div(pieces) == [tag |-> "div", anchor |-> FALSE, text |-> pieces, href |-> None]

\* Tag.get_text(strip=True): every piece stripped, empty pieces dropped, joined
GetText(pieces) ==
    Join(SelectSeq([i \in 1..Len(pieces) |-> Strip(pieces[i])],
                   LAMBDA t : t # <<>>))

\* element.find_next(tag): index of the first element after position i with
\* that tag, 0 when there is none
FindNext(doc, i, tag) ==
    IF \E k \in (i + 1)..Len(doc) : doc[k].tag = tag
    THEN CHOOSE k \in (i + 1)..Len(doc) :
            doc[k].tag = tag /\ \A m \in (i + 1)..(k - 1) : doc[m].tag # tag
    ELSE 0

\* models.Paper
Paper(title, authors, abstract, url, venue) ==
    [title |-> title, authors |-> authors, abstract |-> abstract,
     url |-> url, venue |-> venue]

\* the loop `for i in range(2)` forgetting to advance `current`
EntryDivsNoAdvance(doc, h) ==
    LET d1 == FindNext(doc, h, "div")
    IN  <<d1, d1>>

\* the two divs the loop over range(2) visits from the h3 at position h:
\* `current` advances to each div found (0: none found, the loop broke)
EntryDivs(doc, h) ==
    LET d1 == FindNext(doc, h, "div")
        d2 == IF d1 = 0 THEN 0 ELSE FindNext(doc, d1, "div")
    IN  <<d1, d2>>

\* the loop body appending a record whether or not an author line was found
EntryPapersNoAuthorCheck(doc, h) ==
    IF ~doc[h].anchor THEN <<>>
    ELSE LET ds == EntryDivs(doc, h)
             authors == IF ds[1] = 0 THEN <<>> ELSE GetText(doc[ds[1]].text)
             abstract == IF ds[2] = 0 THEN <<>> ELSE GetText(doc[ds[2]].text)
         IN  <<Paper(GetText(doc[h].text), <<authors>>, abstract,
                     CleanUrl(doc[h].href), <<>>)>>

\* the loop body taking the first div with text as the author line
EntryPapersFirstNonEmpty(doc, h) ==
    IF ~doc[h].anchor THEN <<>>
    ELSE LET ds == EntryDivs(doc, h)
             t1 == IF ds[1] = 0 THEN <<>> ELSE GetText(doc[ds[1]].text)
             t2 == IF ds[2] = 0 THEN <<>> ELSE GetText(doc[ds[2]].text)
             authors == IF t1 # <<>> THEN t1 ELSE t2
             abstract == IF t1 # <<>> THEN t2 ELSE <<>>
         IN  IF authors # <<>>
             THEN <<Paper(GetText(doc[h].text), <<authors>>, abstract,
                          CleanUrl(doc[h].href), <<>>)>>
             ELSE <<>>

\* the body of the loop over h3 elements: the records (none or one) the h3 at
\* position h yields
EntryPapers(doc, h) ==
    IF ~doc[h].anchor THEN <<>>
    ELSE LET title == GetText(doc[h].text)
             url == CleanUrl(doc[h].href)
             ds == EntryDivs(doc, h)
             authors == IF ds[1] = 0 THEN <<>> ELSE GetText(doc[ds[1]].text)
             abstract == IF ds[2] = 0 THEN <<>> ELSE GetText(doc[ds[2]].text)
         IN  IF authors # <<>>
             THEN <<Paper(title, <<authors>>, abstract, url, <<>>)>>
             ELSE <<>>

RECURSIVE ExtractFrom(_, _)
ExtractFrom(doc, h) ==
    IF h > Len(doc) THEN <<>>
    ELSE (IF doc[h].tag = "h3" THEN EntryPapers(doc, h) ELSE <<>>)
         \o ExtractFrom(doc, h + 1)

\* ScholarClassifier._extract_paper_metadata
ExtractPaperMetadata(doc) == ExtractFrom(doc, 1)

(***************************************************************************)
(* Applying _extract_paper_metadata to one redirect-wrapped entry.         *)
(***************************************************************************)
\* the MCP server as constructed and not yet serving: self._email_cache = [],
\* self._paper_cache = [], self._cache_timestamp = None
ServerAtRest ==
    /\ email_cache = [emails |-> <<>>, fetched_at |-> 0]
    /\ paper_cache = <<>>
    /\ cache_timestamp = [has |-> FALSE, v |-> 0]
    /\ now = 0 /\ tasks = <<>> /\ classifiers = 0

\* the classifier instance at rest, the notifier and the mail client idle, for the
\* specifications that apply a pure function
ClassifierAtRest ==
    /\ ServerAtRest
    /\ processed_titles = {} /\ processed_urls = {}
    /\ email_messages = <<>> /\ ei = 0 /\ papers = <<>> /\ pj = 0
    /\ filtered_papers = <<>> /\ pk = 0 /\ all_results = <<>> /\ pc = "idle"
    /\ survivors = <<>> /\ issued = <<>> /\ sent = <<>>
    /\ last_response = None /\ last_filter = None /\ accepted = {}
    /\ repeat = FALSE /\ prev_count = 0
    /\ paper_results = <<>> /\ papers_by_topic = <<>> /\ ni = 0 /\ nj = 0
    /\ posted = <<>> /\ logged = <<>> /\ npc = "idle"
    /\ target_subjects = <<>> /\ all_message_numbers = {} /\ examined = <<>>
    /\ emails = <<>> /\ fpc = "idle"
    /\ delete_result = "none" /\ delete_commands = <<>>

\* characters of the direct URLs: a letter, the percent sign and two digits,
\* so that a direct URL may itself hold the escapes %22, %25, %52 and %55
UrlChars == {"x", "%", "2", "5"}

DirectUrls == UNION {[1..n -> UrlChars] : n \in 1..MaxUrlLen}

WrapperPrefix == <<"h","t","t","p",":","/","/","g","/","s","c","h","o","l","a","r","_","u","r","l","?","u","r","l","=">>

\* what may follow the url parameter in the wrapper
WrapperSuffixes == {<<>>, <<"&","h","l","=","e","n">>}

AuthorLine == <<"J"," ","D","o","e"," ","-"," ","a","r","X","i","v">>

UrlInit ==
    /\ ClassifierAtRest
    /\ step = "in"
    /\ arg \in [direct : DirectUrls]
    /\ ret = <<>>

\* the alert wraps the direct URL: .../scholar_url?url=<percent-encoding>
WrapDirectUrl ==
    /\ step = "in"
    /\ \E suffix \in WrapperSuffixes :
          arg' = [direct |-> arg.direct,
                  href |-> WrapperPrefix \o Quote(arg.direct) \o suffix]
    /\ step' = "wrapped"
    /\ UNCHANGED <<ret, classifyVars, notifyVars, fetchVars, serverVars>>

\* _extract_paper_metadata on the one-entry document with that href
ExtractWrapped ==
    /\ step = "wrapped"
    /\ ret' = ExtractPaperMetadata(
                 << H3(<< <<"T","i">> >>, Some(arg.href)), Div(<<AuthorLine>>) >>)
    /\ step' = "out"
    /\ UNCHANGED <<arg, classifyVars, notifyVars, fetchVars, serverVars>>

\* what a href that is no redirect wrapper may put before the direct URL: a
\* path, a query with another parameter, a `url` parameter left blank before
\* another parameter, a fragment, and a host with an unbalanced bracket
PlainPrefixes ==
    { <<"h","t","t","p",":","/","/","g","/">>,
      <<"h","t","t","p",":","/","/","g","/","p","?","q","=">>,
      <<"h","t","t","p",":","/","/","g","/","p","?","u","r","l","=","&","q","=">>,
      <<"h","t","t","p",":","/","/","g","/","p","#","u","r","l","=">>,
      <<"h","t","t","p",":","/","/","[","g","/">> }

\* the alert links the paper directly: the href holds the direct URL as it is
LinkDirectly ==
    /\ step = "in"
    /\ \E prefix \in PlainPrefixes :
          arg' = [direct |-> arg.direct, href |-> prefix \o arg.direct]
    /\ step' = "linked"
    /\ UNCHANGED <<ret, classifyVars, notifyVars, fetchVars, serverVars>>

\* _extract_paper_metadata on the one-entry document with that plain href
ExtractLinked ==
    /\ step = "linked"
    /\ ret' = ExtractPaperMetadata(
                 << H3(<< <<"T","i">> >>, Some(arg.href)), Div(<<AuthorLine>>) >>)
    /\ step' = "plain"
    /\ UNCHANGED <<arg, classifyVars, notifyVars, fetchVars, serverVars>>

UrlNext == WrapDirectUrl \/ ExtractWrapped \/ LinkDirectly \/ ExtractLinked

UrlSpec == UrlInit /\ [][UrlNext]_vars

\* C10: extracting an entry whose href is the redirect wrapper of a direct URL
\* u yields one record whose url is exactly u (the wrapper is decoded once).
C10_WrapperDecodesExactly ==
    step = "out" => Len(ret) = 1 /\ ret[1].url = arg.direct

\* C11 as claimed: an entry whose href carries no `url` query parameter
\* yields a record whose url is the empty string.
C11_PlainHrefEmpty ==
    step = "plain" => Len(ret) = 1 /\ ret[1].url = <<>>

\* C11 as amended: an entry whose href carries no `url` query parameter with
\* a value yields a record whose url is the href itself, unchanged; the url
\* is empty only when the href cannot be parsed (an unbalanced bracket in
\* its host).
C11_PlainHrefKept ==
    step = "plain" =>
        /\ Len(ret) = 1
        /\ ret[1].url = IF Find("[", arg.href) # 0 THEN <<>> ELSE arg.href

\* a plain href with a query (and no `url` value in it) was extracted and the
\* record's url is that href, the percent sign in it still there
C11_Witness ==
    /\ step = "plain"
    /\ Find("?", arg.href) # 0 /\ Find("%", arg.href) # 0
    /\ Len(ret) = 1 /\ ret[1].url = arg.href /\ ret[1].url # <<>>

(***************************************************************************)
(* Applying _extract_paper_metadata to arbitrary documents.                *)
(***************************************************************************)
\* the elements documents are made of: a heading with a titled link, a
\* heading whose anchor holds only whitespace, a heading without an anchor,
\* two divs with text and a div without
NodePool ==
    { H3(<< <<" ","T","i"," ">> >>, None),
      H3(<< <<" ">> >>, None),
      H3NoAnchor,
      Div(<< <<"J"," ","D","o","e">> >>),
      Div(<< <<" ","R">>, <<"o","e"," ">> >>),
      Div(<< <<" ">> >>) }

Documents == UNION {[1..n -> NodePool] : n \in 0..MaxNodes}

ExtractInit ==
    /\ ClassifierAtRest
    /\ step = "in"
    /\ arg \in Documents
    /\ ret = <<>>

ApplyExtract ==
    /\ step = "in"
    /\ ret' = ExtractPaperMetadata(arg)
    /\ step' = "out"
    /\ UNCHANGED <<arg, classifyVars, notifyVars, fetchVars, serverVars>>

ExtractNext == ApplyExtract

ExtractSpec == ExtractInit /\ [][ExtractNext]_vars

\* a document of N well-formed entries: an h3 holding a link, followed by an
\* author div (with text) and an abstract div
WellFormed(doc) ==
    /\ Len(doc) % 3 = 0
    /\ \A i \in 1..(Len(doc) \div 3) :
          /\ doc[3 * i - 2].tag = "h3" /\ doc[3 * i - 2].anchor
          /\ doc[3 * i - 1].tag = "div" /\ GetText(doc[3 * i - 1].text) # <<>>
          /\ doc[3 * i].tag = "div"

\* C8: a document of N well-formed entries yields exactly N records, in
\* document order, the i-th carrying the i-th entry's title, author line and
\* abstract.
C8_WellFormedEntries ==
    (step = "out" /\ WellFormed(arg)) =>
        /\ Len(ret) = Len(arg) \div 3
        /\ \A i \in 1..Len(ret) :
              /\ ret[i].title = GetText(arg[3 * i - 2].text)
              /\ ret[i].authors = <<GetText(arg[3 * i - 1].text)>>
              /\ ret[i].abstract = GetText(arg[3 * i].text)

\* two well-formed entries with different author lines were extracted
C8_Witness ==
    /\ step = "out" /\ WellFormed(arg) /\ Len(arg) = 6
    /\ Len(ret) = 2
    /\ ret[1].authors # ret[2].authors
    /\ ret[1].abstract # ret[1].authors[1]

\* C9 as claimed: every record returned has a non-empty title and a non-empty
\* author line.
C9_TitleAndAuthorsNonEmpty ==
    step = "out" =>
        \A i \in 1..Len(ret) : ret[i].title # <<>> /\ ret[i].authors[1] # <<>>

\* C9 as amended: every record returned has a non-empty author line, and its
\* title is the stripped text of the anchor (empty when the anchor has none).
C9_AuthorsNonEmpty ==
    step = "out" =>
        /\ \A i \in 1..Len(ret) : Len(ret[i].authors) = 1 /\ ret[i].authors[1] # <<>>
        /\ \A i \in 1..Len(ret) :
              \E h \in 1..Len(arg) :
                  arg[h].tag = "h3" /\ arg[h].anchor /\ ret[i].title = GetText(arg[h].text)

\* a record with an empty title was returned
C9_Witness ==
    step = "out" /\ \E i \in 1..Len(ret) : ret[i].title = <<>>

\* the document without its element at position h
Without(doc, h) == SubSeq(doc, 1, h - 1) \o SubSeq(doc, h + 1, Len(doc))

\* the heading at position h has no div immediately following it: the next
\* element is another heading, or the document ends
NoDivFollows(doc, h) ==
    doc[h].tag = "h3" /\ (h = Len(doc) \/ doc[h + 1].tag = "h3")

\* C12: a heading with a link and no div immediately following it yields no
\* record, a heading without an anchor is skipped, and the records of the
\* other entries are unaffected: the records are those of the document
\* without that heading.
C12_HeadingWithoutDivYieldsNothing ==
    step = "out" =>
        \A h \in 1..Len(arg) :
            (NoDivFollows(arg, h) \/ (arg[h].tag = "h3" /\ ~arg[h].anchor))
                => ret = ExtractPaperMetadata(Without(arg, h))

\* a document of entries each made of a heading with a link and two divs,
\* whatever the divs hold
TwoDivEntries(doc) ==
    /\ Len(doc) % 3 = 0
    /\ \A i \in 1..(Len(doc) \div 3) :
          /\ doc[3 * i - 2].tag = "h3" /\ doc[3 * i - 2].anchor
          /\ doc[3 * i - 1].tag = "div"
          /\ doc[3 * i].tag = "div"

\* the entries of such a document, by number, that satisfy keep
EntriesWhere(doc, keep(_)) ==
    SelectSeq([i \in 1..(Len(doc) \div 3) |-> i], keep)

\* C13 as claimed: of the two divs following a heading, the first one with
\* text is the author line; an entry whose first div is empty and whose
\* second is not is kept, the second div's text being its author line.
C13_FirstNonEmptyIsAuthors ==
    (step = "out" /\ TwoDivEntries(arg)) =>
        LET t1(i) == GetText(arg[3 * i - 1].text)
            t2(i) == GetText(arg[3 * i].text)
            authorsOf(i) == IF t1(i) # <<>> THEN t1(i) ELSE t2(i)
            keptEntries == EntriesWhere(arg, LAMBDA i : authorsOf(i) # <<>>)
        IN  /\ Len(ret) = Len(keptEntries)
            /\ \A k \in 1..Len(keptEntries) :
                  k <= Len(ret) => ret[k].authors = <<authorsOf(keptEntries[k])>>

\* C13 as amended: the divs are taken by position: the first following div
\* gives the author line and the second the abstract; an entry whose first
\* div is empty yields no record, whatever its second div holds.
C13_AuthorsByPosition ==
    (step = "out" /\ TwoDivEntries(arg)) =>
        LET t1(i) == GetText(arg[3 * i - 1].text)
            t2(i) == GetText(arg[3 * i].text)
            keptEntries == EntriesWhere(arg, LAMBDA i : t1(i) # <<>>)
        IN  /\ Len(ret) = Len(keptEntries)
            /\ \A k \in 1..Len(ret) :
                  /\ ret[k].title = GetText(arg[3 * keptEntries[k] - 2].text)
                  /\ ret[k].authors = <<t1(keptEntries[k])>>
                  /\ ret[k].abstract = t2(keptEntries[k])

\* of two entries, the first has an empty first div and a second div with
\* text and yielded nothing; the second entry yielded the only record
C13_Witness ==
    /\ step = "out" /\ TwoDivEntries(arg) /\ Len(arg) = 6
    /\ GetText(arg[2].text) = <<>> /\ GetText(arg[3].text) # <<>>
    /\ GetText(arg[5].text) # <<>>
    /\ Len(ret) = 1
    /\ ret[1].authors = <<GetText(arg[5].text)>>
    /\ ret[1].authors # <<GetText(arg[3].text)>>

(***************************************************************************)
(* The completion service's answer and its classification object.          *)
(*                                                                         *)
(* A JSON value is tagged with its Python type after json.loads; an object *)
(* is a function from its keys (a set of strings) to JSON values.          *)
(***************************************************************************)
JStr(s) == [t |-> "str", v |-> s]
\* a number, kept as its digits
JNum(digits) == [t |-> "num", v |-> digits]
JNull == [t |-> "null", v |-> <<>>]
JList(xs) == [t |-> "list", v |-> xs]
JObj(f) == [t |-> "dict", v |-> f]

\* config.ResearchTopic (the fields the pipeline reads)
ResearchTopic(name, slack_channel) == [name |-> name, slack_channel |-> slack_channel]

\* one entry t of relevant_topics against one registry topic
TopicNameMatches(t, topic) ==
    t.t = "str" /\ Lower(Strip(t.v)) = Lower(topic.name)

\* the comprehension iterating the model's list instead of the registry
MatchTopicsModelOrder(research_topics, paper_relevant_topics) ==
    LET hit(t) == \E k \in 1..Len(research_topics) :
                      TopicNameMatches(t, research_topics[k])
        first(t) == research_topics[CHOOSE k \in 1..Len(research_topics) :
                                       TopicNameMatches(t, research_topics[k])]
        hits == SelectSeq(paper_relevant_topics, hit)
    IN  [i \in 1..Len(hits) |-> first(hits[i])]

\* relevant_topics = [topic for topic in research_topics if any(... for t in
\* paper_relevant_topics)], for a list paper_relevant_topics
MatchTopics(research_topics, paper_relevant_topics) ==
    SelectSeq(research_topics,
              LAMBDA topic : \E i \in 1..Len(paper_relevant_topics) :
                                TopicNameMatches(paper_relevant_topics[i], topic))

(***************************************************************************)
(* Applying the topic matching to arbitrary registries and lists.          *)
(***************************************************************************)
\* registry names: two that differ in case only, one more, and one written
\* with a leading blank
TopicNames == { <<"A","b">>, <<"A","B">>, <<"C","d">>, <<" ","E","f">> }

\* the registries: sequences of topics with distinct names
Registries ==
    { r \in UNION {[1..n -> {ResearchTopic(nm, None) : nm \in TopicNames}] : n \in 0..2} :
        \A i, j \in 1..Len(r) : i # j => r[i].name # r[j].name }

\* what the model may list: names in another case or padded with blanks, a
\* substring of a name, an unknown name, and a value that is no string
ListedValues ==
    { JStr(<<"a","b">>), JStr(<<" ","A","b"," ">>), JStr(<<"A">>), JStr(<<"C","D">>), JStr(<<"Z","z">>), JStr(<<" ","e","f">>), JNum(<<"7">>) }

TopicLists == UNION {[1..n -> ListedValues] : n \in 0..MaxTopics}

TopicInit ==
    /\ ClassifierAtRest
    /\ step = "in"
    /\ arg \in [registry : Registries, relevant_topics : TopicLists]
    /\ ret = <<>>

ApplyMatchTopics ==
    /\ step = "in"
    /\ ret' = MatchTopics(arg.registry, arg.relevant_topics)
    /\ step' = "out"
    /\ UNCHANGED <<arg, classifyVars, notifyVars, fetchVars, serverVars>>

TopicNext == ApplyMatchTopics

TopicSpec == TopicInit /\ [][TopicNext]_vars

\* ret is a subsequence of the registry: its topics in registry order, each
\* registry position used at most once
InRegistryOrder(result, registry) ==
    \E pos \in [1..Len(result) -> 1..Len(registry)] :
        /\ \A i \in 1..Len(result) : registry[pos[i]] = result[i]
        /\ \A i, j \in 1..Len(result) : i < j => pos[i] < pos[j]

\* C6 as claimed: the matched topics are exactly the registry topics whose
\* name equals, case-insensitively, one of the listed strings, in registry
\* order, each at most once.
C6_ExactCaseInsensitive ==
    step = "out" =>
        /\ InRegistryOrder(ret, arg.registry)
        /\ \A k \in 1..Len(arg.registry) :
              (\E i \in 1..Len(ret) : ret[i] = arg.registry[k])
              <=> (\E i \in 1..Len(arg.relevant_topics) :
                      /\ arg.relevant_topics[i].t = "str"
                      /\ Lower(arg.relevant_topics[i].v) = Lower(arg.registry[k].name))

\* C6 as amended: the matched topics are exactly the registry topics whose
\* lowercased name equals the lowercased form of a listed string with its
\* leading and trailing whitespace removed, in registry order, each at most
\* once; any other listed value is ignored.
C6_ExactAfterStrip ==
    step = "out" =>
        /\ InRegistryOrder(ret, arg.registry)
        /\ \A k \in 1..Len(arg.registry) :
              (\E i \in 1..Len(ret) : ret[i] = arg.registry[k])
              <=> (\E i \in 1..Len(arg.relevant_topics) :
                      /\ arg.relevant_topics[i].t = "str"
                      /\ Lower(Strip(arg.relevant_topics[i].v)) = Lower(arg.registry[k].name))

\* the model listed the second registry topic first, a padded name, and an
\* unknown name; both registry topics were matched
C6_Witness ==
    /\ step = "out"
    /\ Len(arg.registry) = 2 /\ Len(ret) = 2
    /\ Len(arg.relevant_topics) = 3
    /\ TopicNameMatches(arg.relevant_topics[1], arg.registry[2])
    /\ arg.relevant_topics[2].t = "str"
    /\ arg.relevant_topics[2].v # Strip(arg.relevant_topics[2].v)
    /\ TopicNameMatches(arg.relevant_topics[2], arg.registry[1])
    /\ \A k \in 1..2 : ~TopicNameMatches(arg.relevant_topics[3], arg.registry[k])

(***************************************************************************)
(* classify_papers: email content, filtering, classification.              *)
(***************************************************************************)
\* an email.message.Message: is_multipart(), and the parts walk() yields (for
\* a message that is not multipart, the message itself); a payload is the
\* decoded bytes (here the document they hold) or None
Part(content_type, payload) == [content_type |-> content_type, payload |-> payload]
Message(is_multipart, parts) == [is_multipart |-> is_multipart, parts |-> parts]

\* ScholarClassifier._get_email_content: the first text/html part whose
\* payload is bytes, or the payload of a single-part message; "" otherwise
GetEmailContent(m) ==
    IF m.is_multipart
    THEN LET html == SelectSeq(m.parts,
                        LAMBDA p : p.content_type = "text/html" /\ p.payload.has)
         IN  IF html = <<>> THEN <<>> ELSE html[1].payload.v
    ELSE IF m.parts[1].payload.has THEN m.parts[1].payload.v ELSE <<>>

\* the key computed without lower()
TitleKeyNoLower(paper) == Strip(paper.title)

\* title = paper.title.lower().strip()
TitleKey(paper) == Strip(Lower(paper.title))

\* url = paper.url.lower().strip()
UrlKey(paper) == Strip(Lower(paper.url))

ExclusionWords ==
    { <<"p","a","t","e","n","t">>,
      <<"a","p","p","a","r","a","t","u","s">>,
      <<"m","e","t","h","o","d"," ","a","n","d"," ","s","y","s","t","e","m">> }

\* the exclusion test applied to the title as extracted
IsExcludedRawTitle(paper) ==
    \E word \in ExclusionWords : Contains(word, paper.title)

\* any(word in title for word in ["patent", "apparatus", "method and system"])
IsExcluded(paper) ==
    \E word \in ExclusionWords : Contains(word, TitleKey(paper))

\* a duplicate test on the title key alone
IsDuplicateTitleOnly(paper, titles, urls) == TitleKey(paper) \in titles

\* title in self._processed_titles or (url and url in self._processed_urls)
IsDuplicate(paper, titles, urls) ==
    \/ TitleKey(paper) \in titles
    \/ (UrlKey(paper) # <<>> /\ UrlKey(paper) \in urls)

\* what the filtering loop decides for one candidate
FilterDecision(paper, titles, urls) ==
    IF IsDuplicate(paper, titles, urls) THEN "duplicate"
    ELSE IF IsExcluded(paper) THEN "patent"
    ELSE "kept"

\* a filter that never records the title key
TitlesAfterForgetful(paper, titles, decision) == titles

\* self._processed_titles.add(title), reached by a kept candidate only
TitlesAfter(paper, titles, decision) ==
    IF decision = "kept" THEN titles \cup {TitleKey(paper)} ELSE titles

\* the url key recorded without the `if url` test
UrlsAfterUnguarded(paper, urls, decision) ==
    IF decision = "kept" THEN urls \cup {UrlKey(paper)} ELSE urls

\* if url: self._processed_urls.add(url), reached by a kept candidate only
UrlsAfter(paper, urls, decision) ==
    IF decision = "kept" /\ UrlKey(paper) # <<>>
    THEN urls \cup {UrlKey(paper)}
    ELSE urls

\* the completion service's answer: create() raised, or message.content is
\* None, "", text json.loads rejects, or text json.loads parses to `value`
Response(kind, value) == [kind |-> kind, value |-> value]

\* the Python value of a JSON string, and of a JSON list of strings
PyStr(j) == j.v
PyStrList(j) == [i \in 1..Len(j.v) |-> j.v[i].v]

\* the record built with the model's title when it gives one
BuildPaperModelTitle(paper, paper_data) ==
    Paper(IF "title" \in DOMAIN paper_data.v /\ paper_data.v["title"].t = "str"
          THEN PyStr(paper_data.v["title"]) ELSE paper.title,
          PyStrList(paper_data.v["authors"]),
          paper.abstract,
          paper.url,
          IF "venue" \in DOMAIN paper_data.v THEN PyStr(paper_data.v["venue"]) ELSE <<>>)

\* the venue the prompt asks the model to give when it finds none
NotFound == <<"N","O","T","-","F","O","U","N","D">>

\* the record built with the sentinel for a missing venue
BuildPaperNotFound(paper, paper_data) ==
    Paper(paper.title,
          PyStrList(paper_data.v["authors"]),
          paper.abstract,
          paper.url,
          IF "venue" \in DOMAIN paper_data.v THEN PyStr(paper_data.v["venue"]) ELSE NotFound)

\* paper_obj = Paper(title=paper.title, authors=paper_data["authors"],
\*                   abstract=paper.abstract, venue=paper_data.get("venue", ""),
\*                   url=paper.url), once the fields are known to validate
BuildPaper(paper, paper_data) ==
    Paper(paper.title,
          PyStrList(paper_data.v["authors"]),
          paper.abstract,
          paper.url,
          IF "venue" \in DOMAIN paper_data.v THEN PyStr(paper_data.v["venue"]) ELSE <<>>)

\* pydantic's validation of Paper: authors a list of str, venue a str
PaperValidates(paper_data) ==
    /\ paper_data.v["authors"].t = "list"
    /\ \A i \in 1..Len(paper_data.v["authors"].v) : paper_data.v["authors"].v[i].t = "str"
    /\ ("venue" \in DOMAIN paper_data.v => paper_data.v["venue"].t = "str")

Failed(exc) == [ok |-> FALSE, exc |-> exc, item |-> <<>>]
Succeeded(paper_obj, topics) ==
    [ok |-> TRUE, exc |-> "", item |-> [paper |-> paper_obj, topics |-> topics]]

\* the topics of a classification object that validated: iterating
\* relevant_topics raises TypeError when it is a number or null (and the
\* registry is not empty); a str is iterated character by character.  (A dict
\* would be iterated over its keys; no answer of this model holds one.)
TopicsOutcome(paper_obj, paper_data, research_topics) ==
    LET rt == IF "relevant_topics" \in DOMAIN paper_data.v
              THEN paper_data.v["relevant_topics"] ELSE JList(<<>>)
    IN  CASE research_topics = <<>> -> Succeeded(paper_obj, <<>>)
          [] research_topics # <<>> /\ rt.t = "list" ->
                Succeeded(paper_obj, MatchTopics(research_topics, rt.v))
          [] research_topics # <<>> /\ rt.t = "str" ->
                Succeeded(paper_obj,
                          MatchTopics(research_topics,
                                      [i \in 1..Len(rt.v) |-> JStr(<<rt.v[i]>>)]))
          [] research_topics # <<>> /\ rt.t \in {"num", "null"} -> Failed("TypeError")

\* the fields the prompt asks the classification object to hold
RequiredFields == {"title", "authors", "abstract", "venue", "link", "relevant_topics"}

\* a try block that reads every required field but venue with paper_data[...]
ClassifyOutcomeAllRequired(paper, resp, research_topics) ==
    CASE resp.kind = "raise" -> Failed("APIError")
      [] resp.kind \in {"none", "empty"} -> Failed("")
      [] resp.kind = "garbage" -> Failed("JSONDecodeError")
      [] resp.kind = "json" ->
            IF resp.value.t = "list" /\ resp.value.v = <<>> THEN Failed("IndexError")
            ELSE LET paper_data == IF resp.value.t = "list"
                                   THEN resp.value.v[1] ELSE resp.value
                 IN  IF paper_data.t # "dict" THEN Failed("TypeError")
                     ELSE IF (RequiredFields \ {"venue"}) \ DOMAIN paper_data.v # {}
                          THEN Failed("KeyError")
                     ELSE IF ~PaperValidates(paper_data) THEN Failed("ValidationError")
                     ELSE TopicsOutcome(BuildPaper(paper, paper_data),
                                        paper_data, research_topics)

\* the body of the try block for one paper: the item appended to all_results,
\* or the exception raised ("" for the `continue` on empty content)
ClassifyOutcome(paper, resp, research_topics) ==
    CASE resp.kind = "raise" -> Failed("APIError")
      [] resp.kind \in {"none", "empty"} -> Failed("")
      [] resp.kind = "garbage" -> Failed("JSONDecodeError")
      [] resp.kind = "json" ->
            IF resp.value.t = "list" /\ resp.value.v = <<>> THEN Failed("IndexError")
            ELSE LET paper_data == IF resp.value.t = "list"
                                   THEN resp.value.v[1] ELSE resp.value
                 IN  IF paper_data.t # "dict" THEN Failed("TypeError")
                     ELSE IF "authors" \notin DOMAIN paper_data.v THEN Failed("KeyError")
                     ELSE IF ~PaperValidates(paper_data) THEN Failed("ValidationError")
                     ELSE TopicsOutcome(BuildPaper(paper, paper_data),
                                        paper_data, research_topics)

\* a handler written `except json.JSONDecodeError`
CaughtJsonOnly(exc) == exc \in {"", "JSONDecodeError"}

\* `except Exception as e`: every exception the body raises is an Exception
Caught(exc) ==
    exc \in {"", "APIError", "JSONDecodeError", "IndexError", "KeyError",
             "TypeError", "ValidationError"}

(***************************************************************************)
(* One ScholarClassifier instance serving classify_papers calls.           *)
(***************************************************************************)
\* config.research_topics
ResearchTopics ==
    << ResearchTopic(<<"A","b">>, Some(<<"#","a","b">>)), ResearchTopic(<<"C","d">>, None) >>

\* three alert emails.  The first (multipart, its HTML after a plain-text
\* part) lists a paper behind a redirect wrapper, the same title again in
\* another case, and a patent; the second (single part) lists a paper whose
\* wrapped URL is the first one's in another case, and a paper without link;
\* the third (multipart, its first HTML part without bytes) lists the second
\* email's first title in capitals.
Doc1 ==
    << H3(<< <<"A","b">> >>, Some(WrapperPrefix \o <<"x",".","y","%","2","F","P">>)), Div(<< <<"J"," ","D","o","e">> >>), Div(<< <<"O","n"," ","x">> >>),
       H3(<< <<" ","a","B"," ">> >>, None), Div(<< <<"J"," ","D","o","e">> >>), Div(<< <<" ">> >>),
       H3(<< <<"A"," ","P","a","t","e","n","t">> >>, Some(<<"h","t","t","p",":","/","/","p","/","1">>)), Div(<< <<"K"," ","P","o","e">> >>), Div(<< <<"O","n"," ","x">> >>) >>
Doc2 ==
    << H3(<< <<"C","d">> >>, Some(WrapperPrefix \o <<"X",".","Y","%","2","F","P","%","2","0">>)), Div(<< <<"K"," ","P","o","e">> >>), Div(<< <<"O","f"," ","y">> >>),
       H3(<< <<"E","f">> >>, None), Div(<< <<"J"," ","D","o","e">> >>), Div(<< <<"O","f"," ","y">> >>) >>
Doc3 ==
    << H3(<< <<"C","D">> >>, Some(WrapperPrefix \o <<"q">>)), Div(<< <<"K"," ","P","o","e">> >>), Div(<< <<"O","n"," ","x">> >>) >>

Email1 == Message(TRUE, << Part("text/plain", Some(<<>>)), Part("text/html", Some(Doc1)) >>)
Email2 == Message(FALSE, << Part("text/html", Some(Doc2)) >>)
Email3 == Message(TRUE, << Part("text/html", None), Part("text/html", Some(Doc3)) >>)

Inbox == {Email1, Email2, Email3}

Batches == UNION {[1..n -> Inbox] : n \in 0..MaxEmails}

\* a complete classification object, whose title, abstract and link differ
\* from the extracted ones
FullObject ==
    JObj([title |-> JStr(<<"Z","z">>), authors |-> JList(<< JStr(<<"D","o","e">>), JStr(<<"P","o","e">>) >>),
          abstract |-> JStr(<<"m","m">>), venue |-> JStr(<<"S","O","S","P">>), link |-> JStr(<<"l">>),
          relevant_topics |-> JList(<< JStr(<<"c","d">>), JStr(<<" ","A","b"," ">>), JStr(<<"Z","z">>) >>)])

\* what the completion service may answer to one call
Answers ==
    << Response("raise", JNull),
       Response("none", JNull),
       Response("empty", JNull),
       Response("garbage", JNull),
       Response("json", JList(<<>>)),
       Response("json", JObj([title |-> JStr(<<"Z","z">>), venue |-> JStr(<<"S","O","S","P">>),
                              relevant_topics |-> JList(<< JStr(<<"c","d">>) >>)])),
       Response("json", JObj([authors |-> JStr(<<"D","o","e">>), venue |-> JStr(<<"S","O","S","P">>)])),
       Response("json", JObj([authors |-> JList(<< JStr(<<"D","o","e">>) >>),
                              relevant_topics |-> JNull])),
       Response("json", JStr(<<"Z","z">>)),
       Response("json", FullObject),
       Response("json", JList(<< JObj([authors |-> JList(<< JStr(<<"P","o","e">>) >>),
                                       title |-> JStr(<<"Z","z">>)]) >>)) >>

Init ==
    /\ ClassifierAtRest
    /\ arg = <<>> /\ ret = <<>> /\ step = "in"

\* a caller invokes classify_papers(batch): all_results = []
Call(batch) ==
    /\ pc \in {"idle", "returned"}
    /\ repeat' = (pc = "returned" /\ email_messages = batch)
    /\ prev_count' = IF pc = "returned" THEN Len(all_results) ELSE 0
    /\ email_messages' = batch
    /\ all_results' = <<>>
    /\ survivors' = <<>>
    /\ issued' = <<>>
    /\ sent' = <<>>
    /\ last_response' = None
    /\ last_filter' = None
    /\ ei' = 1
    /\ papers' = <<>> /\ pj' = 0 /\ filtered_papers' = <<>> /\ pk' = 0
    /\ pc' = IF batch = <<>> THEN "done" ELSE "extract"
    /\ UNCHANGED <<processed_titles, processed_urls, accepted, fnVars, notifyVars,
                   fetchVars, serverVars>>

\* content = self._get_email_content(email_message);
\* papers = self._extract_paper_metadata(content); filtered_papers = []
ExtractEmail ==
    /\ pc = "extract"
    /\ papers' = ExtractPaperMetadata(GetEmailContent(email_messages[ei]))
    /\ pj' = 1
    /\ filtered_papers' = <<>>
    /\ pc' = "filter"
    /\ UNCHANGED <<processed_titles, processed_urls, email_messages, ei, pk,
                   all_results, survivors, issued, sent, last_response,
                   last_filter, accepted, repeat, prev_count, fnVars, notifyVars,
                   fetchVars, serverVars>>

\* one iteration of `for paper in papers`
FilterPaper ==
    /\ pc = "filter" /\ pj <= Len(papers)
    /\ LET paper == papers[pj]
           decision == FilterDecision(paper, processed_titles, processed_urls)
       IN  /\ processed_titles' = TitlesAfter(paper, processed_titles, decision)
           /\ processed_urls' = UrlsAfter(paper, processed_urls, decision)
           /\ filtered_papers' = IF decision = "kept"
                                 THEN Append(filtered_papers, paper)
                                 ELSE filtered_papers
           /\ survivors' = IF decision = "kept" THEN Append(survivors, paper)
                           ELSE survivors
           /\ accepted' = IF decision = "kept" THEN accepted \cup {paper} ELSE accepted
           /\ last_filter' = Some([paper |-> paper, decision |-> decision,
                                   titles |-> processed_titles,
                                   urls |-> processed_urls, accepted |-> accepted])
    /\ pj' = pj + 1
    /\ UNCHANGED <<email_messages, ei, papers, pk, all_results, pc, issued,
                   sent, last_response, repeat, prev_count, fnVars, notifyVars,
                   fetchVars, serverVars>>

\* the filtering loop ends; `for paper in filtered_papers` begins
EndFilter ==
    /\ pc = "filter" /\ pj > Len(papers)
    /\ pk' = 1
    /\ pc' = "classify"
    /\ UNCHANGED <<processed_titles, processed_urls, email_messages, ei, papers,
                   pj, filtered_papers, all_results, survivors, issued, sent,
                   last_response, last_filter, accepted, repeat, prev_count, fnVars, notifyVars,
                   fetchVars, serverVars>>

\* a loop taking the filtered papers last to first
IterateBackwards(filtered, k) == filtered[Len(filtered) + 1 - k]

\* `for paper in filtered_papers`: the paper of iteration k
Iterate(filtered, k) == filtered[k]

\* a loop that stays on a paper whose processing failed
NextIterationRetry(k, out) == IF out.ok THEN k + 1 ELSE k

\* the loop moves on to the next paper after the try statement, whether the
\* body appended a result, hit `continue`, or raised into the handler
NextIteration(k, out) == k + 1

\* where the record was listed: the email's position in the batch and the
\* record's position among the records extracted from it
ListedAt(paper) ==
    [email |-> ei,
     pos |-> CHOOSE j \in 1..Len(papers) :
                papers[j] = paper /\ \A m \in 1..(j - 1) : papers[m] # paper]

\* the top of one iteration of `for paper in filtered_papers`: the prompt is
\* built and pplx_client.chat.completions.create(...) is called; the caller
\* blocks until it returns or raises
IssueCall ==
    /\ pc = "classify" /\ pk <= Len(filtered_papers)
    /\ LET paper == Iterate(filtered_papers, pk)
       IN  issued' = Append(issued, [paper |-> paper, at |-> ListedAt(paper)])
    /\ pc' = "await"
    /\ UNCHANGED <<processed_titles, processed_urls, email_messages, ei, papers,
                   pj, filtered_papers, pk, all_results, survivors, sent,
                   last_response, last_filter, accepted, repeat, prev_count,
                   fnVars, notifyVars,
                   fetchVars, serverVars>>

\* the rest of the iteration: the completion call returns or raises, the
\* answer is parsed, the record and its topics are built, under try/except
ClassifyPaper(resp) ==
    /\ pc = "await"
    /\ LET paper == Iterate(filtered_papers, pk)
           out == ClassifyOutcome(paper, resp, ResearchTopics)
       IN  /\ all_results' = IF out.ok THEN Append(all_results, out.item)
                             ELSE all_results
           /\ sent' = Append(sent, [paper |-> paper, ok |-> out.ok])
           /\ pc' = IF out.ok \/ Caught(out.exc) THEN "classify" ELSE "raised"
           /\ pk' = NextIteration(pk, out)
    /\ last_response' = Some(resp)
    /\ UNCHANGED <<processed_titles, processed_urls, email_messages, ei, papers,
                   pj, filtered_papers, survivors, issued, last_filter, accepted,
                   repeat, prev_count, fnVars, notifyVars,
                   fetchVars, serverVars>>

\* the classification loop ends: the next email, or `return all_results`
EndEmail ==
    /\ pc = "classify" /\ pk > Len(filtered_papers)
    /\ ei' = ei + 1
    /\ pc' = IF ei + 1 > Len(email_messages) THEN "done" ELSE "extract"
    /\ UNCHANGED <<processed_titles, processed_urls, email_messages, papers, pj,
                   filtered_papers, pk, all_results, survivors, issued, sent,
                   last_response, last_filter, accepted, repeat, prev_count, fnVars, notifyVars,
                   fetchVars, serverVars>>

\* the caller takes the returned list; the instance is ready for another call
Return ==
    /\ pc = "done"
    /\ pc' = "returned"
    /\ UNCHANGED <<processed_titles, processed_urls, email_messages, ei, papers,
                   pj, filtered_papers, pk, all_results, survivors, issued, sent,
                   last_response, last_filter, accepted, repeat, prev_count,
                   fnVars, notifyVars,
                   fetchVars, serverVars>>

Next ==
    \/ \E batch \in Batches : Call(batch)
    \/ ExtractEmail
    \/ FilterPaper
    \/ EndFilter
    \/ IssueCall
    \/ \E i \in 1..Len(Answers) : ClassifyPaper(Answers[i])
    \/ EndEmail
    \/ Return

Spec == Init /\ [][Next]_vars

(***************************************************************************)
(* Properties of classify_papers.                                          *)
(***************************************************************************)
Last(seq) == seq[Len(seq)]

\* the classification object of a parsed answer
ObjectOf(resp) ==
    IF resp.value.t = "list" THEN resp.value.v[1] ELSE resp.value

\* an answer whose own steps succeed: it parses, and its classification
\* object has a list of author names, a string venue if any, and topics that
\* can be iterated
GoodAnswer(resp) ==
    /\ resp.kind = "json"
    /\ ~(resp.value.t = "list" /\ resp.value.v = <<>>)
    /\ ObjectOf(resp).t = "dict"
    /\ LET o == ObjectOf(resp).v
       IN  /\ "authors" \in DOMAIN o
           /\ o["authors"].t = "list"
           /\ \A i \in 1..Len(o["authors"].v) : o["authors"].v[i].t = "str"
           /\ ("venue" \in DOMAIN o => o["venue"].t = "str")
           /\ ("relevant_topics" \in DOMAIN o => o["relevant_topics"].t \in {"list", "str"})

\* C1: a failure while processing one paper drops only that paper: no
\* exception escapes classify_papers, every surviving paper is sent to the
\* completion service, and each one whose own answer is good is in the
\* result, in order.
C1_FailureDropsOnlyThatPaper ==
    /\ pc # "raised"
    /\ (sent # <<>> => (Last(sent).ok <=> GoodAnswer(last_response.v)))
    /\ pc = "done" =>
          /\ [i \in 1..Len(sent) |-> sent[i].paper] = survivors
          /\ LET good == SelectSeq(sent, LAMBDA x : x.ok)
             IN  /\ Len(all_results) = Len(good)
                 /\ \A i \in 1..Len(good) :
                       all_results[i].paper.title = good[i].paper.title

\* a call over two emails returned although the first paper's answer had no
\* `authors`, with a later email's paper in the result
C1_Witness ==
    /\ pc = "done"
    /\ Len(email_messages) = 2
    /\ Len(sent) >= 2
    /\ ~sent[1].ok
    /\ Last(sent).ok
    /\ Len(all_results) >= 1
    /\ last_response.has
    /\ last_response.v.kind = "json" /\ last_response.v.value.t = "list"
    /\ last_response.v = Answers[11]

\* C2: a call with the same batch as the previous call on the same instance
\* returns an empty list.
C2_SecondCallEmpty ==
    (pc = "done" /\ repeat) =>
        (all_results = <<>> /\ sent = <<>>)

\* the second of two calls with the same two emails has returned, the first
\* one having returned results
C2_Witness ==
    /\ pc = "done" /\ repeat
    /\ Len(email_messages) = 2
    /\ prev_count >= 2

\* two titles that differ only in letter case or in leading and trailing
\* whitespace
SameUpToCaseAndBlanks(a, b) ==
    LET sa == Strip(a)
        sb == Strip(b)
    IN  Len(sa) = Len(sb) /\ \A i \in 1..Len(sa) : LowerChar(sa[i]) = LowerChar(sb[i])

\* C3: a candidate is rejected as a duplicate exactly when its title key is
\* in the seen titles or its non-empty URL key is in the seen urls; an empty
\* URL never causes a rejection; a title differing only in case or outer
\* whitespace from one let through earlier is rejected.
C3_DuplicateRule ==
    last_filter.has =>
        LET f == last_filter.v
            tkey == Strip(Lower(f.paper.title))
            ukey == Strip(Lower(f.paper.url))
        IN  /\ (f.decision = "duplicate")
                 <=> (tkey \in f.titles \/ (ukey # <<>> /\ ukey \in f.urls))
            /\ (f.paper.url = <<>> /\ tkey \notin f.titles) => f.decision # "duplicate"
            /\ \A a \in f.accepted :
                  SameUpToCaseAndBlanks(a.title, f.paper.title) => f.decision = "duplicate"

\* a candidate was rejected for its title alone: it has no URL, and its title
\* differs in case from one let through earlier
C3_Witness ==
    /\ last_filter.has
    /\ last_filter.v.decision = "duplicate"
    /\ last_filter.v.paper.url = <<>>
    /\ \E a \in last_filter.v.accepted :
          a.title # last_filter.v.paper.title
          /\ SameUpToCaseAndBlanks(a.title, last_filter.v.paper.title)

\* a title whose lowercased form contains a word of the exclusion vocabulary
HasExcludedWord(title) ==
    \E word \in ExclusionWords : Contains(word, Lower(title))

\* C4: no paper whose lowercased title contains "patent", "apparatus" or
\* "method and system" is sent to the completion service or is in a result.
C4_NoExcludedTitle ==
    /\ \A i \in 1..Len(sent) : ~HasExcludedWord(sent[i].paper.title)
    /\ \A i \in 1..Len(filtered_papers) : ~HasExcludedWord(filtered_papers[i].title)
    /\ \A i \in 1..Len(all_results) : ~HasExcludedWord(all_results[i].paper.title)

\* a never-seen paper with "Patent" in its title was rejected, and the call
\* returned results without it
C4_Witness ==
    /\ pc = "done"
    /\ all_results # <<>>
    /\ \E m \in 1..Len(email_messages) :
          \E p \in 1..Len(ExtractPaperMetadata(GetEmailContent(email_messages[m]))) :
              LET paper == ExtractPaperMetadata(GetEmailContent(email_messages[m]))[p]
              IN  /\ HasExcludedWord(paper.title)
                  /\ Strip(Lower(paper.title)) \notin processed_titles

\* C5: the seen-sets change only in a filtering step, and only for a
\* candidate that passes both checks: its title key is added, and its URL key
\* when that is not empty; any other step leaves both sets unchanged.
C5_SeenSetsFrame ==
    [][ /\ (processed_titles' # processed_titles \/ processed_urls' # processed_urls)
           => (pc = "filter" /\ pj <= Len(papers) /\ pj' = pj + 1)
        /\ (pc = "filter" /\ pj <= Len(papers) /\ pj' = pj + 1) =>
              LET paper == papers[pj]
                  passes == /\ ~IsDuplicate(paper, processed_titles, processed_urls)
                            /\ ~HasExcludedWord(paper.title)
              IN  /\ processed_titles' =
                        IF passes THEN processed_titles \cup {Strip(Lower(paper.title))}
                        ELSE processed_titles
                  /\ processed_urls' =
                        IF passes /\ Strip(Lower(paper.url)) # <<>>
                        THEN processed_urls \cup {Strip(Lower(paper.url))}
                        ELSE processed_urls
                  /\ (processed_urls' # processed_urls => paper.url # <<>>)
      ]_vars

\* a candidate without URL passed filtering: its title key was added and the
\* seen urls are as they were, and a later completion call has been answered
C5_Witness ==
    /\ last_filter.has
    /\ last_filter.v.decision = "kept"
    /\ last_filter.v.paper.url = <<>>
    /\ Strip(Lower(last_filter.v.paper.title)) \in processed_titles
    /\ Strip(Lower(last_filter.v.paper.title)) \notin last_filter.v.titles
    /\ processed_urls = last_filter.v.urls
    /\ processed_urls # {}
    /\ sent # <<>>

\* C7: every result pairs a record whose title, abstract and url are the
\* extracted ones and whose authors and venue are those of the model's
\* classification object.
C7_RecordFields ==
    /\ (sent # <<>> /\ Last(sent).ok) =>
          LET r == Last(all_results).paper
              o == ObjectOf(last_response.v).v
          IN  /\ r.title = Last(sent).paper.title
              /\ r.abstract = Last(sent).paper.abstract
              /\ r.url = Last(sent).paper.url
              /\ r.authors = [i \in 1..Len(o["authors"].v) |-> o["authors"].v[i].v]
              /\ ("venue" \in DOMAIN o => r.venue = o["venue"].v)
    /\ LET good == SelectSeq(sent, LAMBDA x : x.ok)
       IN  \A i \in 1..Len(all_results) :
              /\ i <= Len(good)
              /\ all_results[i].paper.title = good[i].paper.title
              /\ all_results[i].paper.abstract = good[i].paper.abstract
              /\ all_results[i].paper.url = good[i].paper.url
              /\ \E k \in 1..Len(survivors) : survivors[k] = good[i].paper

\* a result was built from an answer whose title and link differ from the
\* extracted ones
C7_Witness ==
    /\ sent # <<>> /\ Last(sent).ok
    /\ last_response.has
    /\ last_response.v.kind = "json" /\ last_response.v.value.t = "dict"
    /\ "abstract" \in DOMAIN last_response.v.value.v
    /\ last_response.v = Answers[10]
    /\ Last(all_results).paper.title # ObjectOf(last_response.v).v["title"].v
    /\ Last(all_results).paper.url # <<>>
    /\ Last(all_results).paper.url # ObjectOf(last_response.v).v["link"].v
    /\ Last(all_results).paper.venue = ObjectOf(last_response.v).v["venue"].v

\* C15 as claimed: the venue of a result is the model's value when the
\* classification object has a `venue` field, and "NOT-FOUND" when it has none.
C15_VenueOrNotFound ==
    (sent # <<>> /\ Last(sent).ok) =>
        LET o == ObjectOf(last_response.v).v
        IN  Last(all_results).paper.venue =
                IF "venue" \in DOMAIN o THEN o["venue"].v ELSE NotFound

\* C15 as amended: the venue of a result is the model's value when the
\* classification object has a `venue` field, and the empty string when it
\* has none.
C15_VenueOrEmpty ==
    (sent # <<>> /\ Last(sent).ok) =>
        LET o == ObjectOf(last_response.v).v
        IN  Last(all_results).paper.venue =
                IF "venue" \in DOMAIN o THEN o["venue"].v ELSE <<>>

\* a result was built from a classification object without `venue`, after
\* one built from an object with a venue
C15_Witness ==
    /\ sent # <<>> /\ Last(sent).ok
    /\ "venue" \notin DOMAIN ObjectOf(last_response.v).v
    /\ Last(all_results).paper.venue = <<>>
    /\ Len(all_results) >= 2
    /\ all_results[1].paper.venue # <<>>

\* position a comes before position b: an earlier email, or the same email
\* and an earlier record of its document
ListedBefore(a, b) ==
    a.email < b.email \/ (a.email = b.email /\ a.pos < b.pos)

\* C16: within one call, completion calls are issued one at a time, in the
\* order (position of the email in the batch, position of the paper in that
\* email): at most one call is outstanding, a call is outstanding exactly
\* while the caller waits for it, the calls answered are the calls issued, in
\* order, and the result list is in that same order.
C16_OneCallAtATimeInOrder ==
    /\ Len(issued) \in {Len(sent), Len(sent) + 1}
    /\ (Len(issued) = Len(sent) + 1) <=> (pc = "await")
    /\ \A i \in 1..Len(sent) : sent[i].paper = issued[i].paper
    /\ \A i \in 1..Len(issued) :
          /\ issued[i].at.email \in 1..Len(email_messages)
          /\ LET listed == ExtractPaperMetadata(
                               GetEmailContent(email_messages[issued[i].at.email]))
             IN  /\ issued[i].at.pos \in 1..Len(listed)
                 /\ listed[issued[i].at.pos] = issued[i].paper
    /\ \A i, j \in 1..Len(issued) :
          i < j => ListedBefore(issued[i].at, issued[j].at)
    /\ LET good == SelectSeq(sent, LAMBDA x : x.ok)
       IN  /\ Len(all_results) = Len(good)
           /\ \A i \in 1..Len(good) :
                 /\ all_results[i].paper.title = good[i].paper.title
                 /\ all_results[i].paper.abstract = good[i].paper.abstract

\* the third call of a batch of two emails is outstanding: it is for the
\* second record of the second email, the first call failed and the second
\* gave a result
C16_Witness ==
    /\ pc = "await"
    /\ Len(email_messages) = 2
    /\ Len(issued) = 3 /\ Len(sent) = 2
    /\ issued[1].at.email = 1
    /\ issued[3].at = [email |-> 2, pos |-> 2]
    /\ ~sent[1].ok /\ sent[2].ok
    /\ Len(all_results) = 1

\* how many candidates the emails of the batch list, up to email n
RECURSIVE ListedUpTo(_, _)
ListedUpTo(batch, n) ==
    IF n = 0 THEN 0
    ELSE Len(ExtractPaperMetadata(GetEmailContent(batch[n]))) + ListedUpTo(batch, n - 1)

\* C17: one completion call is issued for each candidate that survives
\* filtering, and none for a rejected one: the calls issued are the survivors,
\* in order, no paper twice, and all of them once the call returns.  A step
\* that is not the top of a classification iteration issues no call; the
\* answer to a call, good or bad, moves the loop to the next paper, leaves the
\* results of the papers before it as they are, and gives this paper a
\* result exactly when its own answer is good.
C17_OneCallPerSurvivorNoRetry ==
    /\ [](/\ Len(issued) <= Len(survivors)
          /\ \A i \in 1..Len(issued) : issued[i].paper = survivors[i]
          /\ \A i, j \in 1..Len(issued) : i # j => issued[i].paper # issued[j].paper
          /\ pc = "done" => (Len(issued) = Len(survivors) /\ Len(sent) = Len(issued)))
    /\ [][ /\ (issued' # issued /\ issued' # <<>>) =>
                 /\ pc = "classify" /\ pk <= Len(filtered_papers)
                 /\ issued' = Append(issued, Last(issued'))
                 /\ Last(issued').paper = filtered_papers[pk]
           /\ (Len(sent') = Len(sent) + 1) =>
                 /\ pk' = pk + 1
                 /\ issued' = issued
                 /\ Last(sent').paper = Last(issued).paper
                 /\ Last(sent').ok <=> GoodAnswer(last_response'.v)
                 /\ all_results' = IF Last(sent').ok
                                   THEN Append(all_results, Last(all_results'))
                                   ELSE all_results
                 /\ Last(sent').ok => Last(all_results').paper.title = Last(sent').paper.title
          ]_vars

\* a call over two emails that list five candidates has returned: three
\* survived filtering and three calls were issued, the first of which failed
C17_Witness ==
    /\ pc = "done"
    /\ Len(email_messages) = 2
    /\ ListedUpTo(email_messages, 2) = 5
    /\ Len(survivors) = 3 /\ Len(issued) = 3
    /\ ~sent[1].ok /\ sent[2].ok /\ sent[3].ok

(***************************************************************************)
(* The text of a completion response and its repair and parsing            *)
(* (classify_papers, the lines between create() and Paper(...)).           *)
(*                                                                         *)
(* The text is a sequence of characters; the double quote, the backslash   *)
(* and the backtick are the named tokens of Ascii.                         *)
(***************************************************************************)
Quote1 == "DQUOTE"
Fence == <<"BACKTICK", "BACKTICK", "BACKTICK">>
FenceJson == Fence \o <<"j","s","o","n">>

\* index of the first occurrence of the string sub in s, 0 when absent
FindStr(sub, s) ==
    IF Contains(sub, s)
    THEN CHOOSE i \in 1..(Len(s) - Len(sub) + 1) :
            /\ SubSeq(s, i, i + Len(sub) - 1) = sub
            /\ \A j \in 1..(i - 1) : SubSeq(s, j, j + Len(sub) - 1) # sub
    ELSE 0

\* s.split(sep) for a separator string
RECURSIVE SplitStr(_, _)
SplitStr(s, sep) ==
    LET i == FindStr(sep, s)
    IN  IF i = 0 THEN <<s>>
        ELSE <<SubSeq(s, 1, i - 1)>> \o SplitStr(SubSeq(s, i + Len(sep), Len(s)), sep)

\* if "```json" in content: content.split("```json")[1].split("```")[0].strip()
\* elif "```" in content: content.split("```")[1].split("```")[0].strip()
ExtractFenced(content) ==
    IF Contains(FenceJson, content)
    THEN Strip(SplitStr(SplitStr(content, FenceJson)[2], Fence)[1])
    ELSE IF Contains(Fence, content)
         THEN Strip(SplitStr(SplitStr(content, Fence)[2], Fence)[1])
         ELSE content

\* the first position from i on that holds no whitespace (Len(s) + 1 when
\* only whitespace is left)
SkipWs(s, i) ==
    IF \E j \in i..Len(s) : ~IsSpace(s[j])
    THEN CHOOSE j \in i..Len(s) : ~IsSpace(s[j]) /\ \A m \in i..(j - 1) : IsSpace(s[m])
    ELSE Len(s) + 1

\* re.sub(r",(\s*[}\]])", r"\1", content): every comma followed by optional
\* whitespace and a closing brace or bracket is removed
RemoveTrailingCommas(s) ==
    LET trailing(i) == /\ s[i] = ","
                       /\ SkipWs(s, i + 1) <= Len(s)
                       /\ s[SkipWs(s, i + 1)] \in {"}", "]"}
        keepAt == SelectSeq([i \in 1..Len(s) |-> i], LAMBDA i : ~trailing(i))
    IN  [n \in 1..Len(keepAt) |-> s[keepAt[n]]]

(***************************************************************************)
(* json.loads, for the JSON the responses of this model are written in:    *)
(* objects, arrays, strings and null, with whitespace between tokens.      *)
(* (Numbers and the literals true and false are outside it.)               *)
(***************************************************************************)
\* the result of parsing a value: the value and the position after it, or a
\* JSONDecodeError
Parsed(v, next) == [ok |-> TRUE, v |-> v, next |-> next]
ParseError == [ok |-> FALSE, v |-> JNull, next |-> 0]

\* the keys of a classification object, as text and as the model names them
KnownKeys ==
    << [text |-> <<"t","i","t","l","e">>, name |-> "title"],
       [text |-> <<"a","u","t","h","o","r","s">>, name |-> "authors"],
       [text |-> <<"a","b","s","t","r","a","c","t">>, name |-> "abstract"],
       [text |-> <<"v","e","n","u","e">>, name |-> "venue"],
       [text |-> <<"l","i","n","k">>, name |-> "link"],
       [text |-> <<"r","e","l","e","v","a","n","t","_","t","o","p","i","c","s">>,
        name |-> "relevant_topics"] >>

KeyName(text) ==
    IF \E k \in 1..Len(KnownKeys) : KnownKeys[k].text = text
    THEN KnownKeys[CHOOSE k \in 1..Len(KnownKeys) : KnownKeys[k].text = text].name
    ELSE "other"

\* the dict of a sequence of <<key, value>> members: a repeated key keeps its
\* last value
MakeObj(members) ==
    JObj([k \in {KeyName(members[n][1]) : n \in 1..Len(members)} |->
            members[CHOOSE n \in 1..Len(members) :
                       /\ KeyName(members[n][1]) = k
                       /\ \A m \in (n + 1)..Len(members) : KeyName(members[m][1]) # k][2]])

\* the string whose opening quote precedes position j: up to the closing
\* quote, an escaped quote, backslash or slash standing for itself; a raw
\* control character or the end of the text inside the string is an error
RECURSIVE ScanString(_, _, _)
ScanString(s, j, acc) ==
    IF j > Len(s) THEN ParseError
    ELSE IF s[j] = Quote1 THEN Parsed(acc, j + 1)
    ELSE IF s[j] = "BACKSLASH"
         THEN IF j + 1 <= Len(s) /\ s[j + 1] \in {Quote1, "BACKSLASH", "/"}
              THEN ScanString(s, j + 2, Append(acc, s[j + 1]))
              ELSE IF j + 1 <= Len(s) /\ s[j + 1] = "n"
                   THEN ScanString(s, j + 2, Append(acc, "\n"))
                   ELSE ParseError
    ELSE IF s[j] \in {"\n", "\t", "\r"} THEN ParseError
    ELSE ScanString(s, j + 1, Append(acc, s[j]))

RECURSIVE ParseValue(_, _)
RECURSIVE ParseMembers(_, _, _)
RECURSIVE ParseElements(_, _, _)

\* the value starting at position i (whitespace already skipped)
ParseValue(s, i) ==
    IF i > Len(s) THEN ParseError
    ELSE IF s[i] = "{" THEN ParseMembers(s, SkipWs(s, i + 1), <<>>)
    ELSE IF s[i] = "[" THEN ParseElements(s, SkipWs(s, i + 1), <<>>)
    ELSE IF s[i] = Quote1
         THEN LET str == ScanString(s, i + 1, <<>>)
              IN  IF str.ok THEN Parsed(JStr(str.v), str.next) ELSE ParseError
    ELSE IF i + 3 <= Len(s) /\ SubSeq(s, i, i + 3) = <<"n","u","l","l">>
         THEN Parsed(JNull, i + 4)
    ELSE ParseError

\* the members of an object from position i on, acc being those before; a
\* closing brace is accepted here only when no member precedes it
ParseMembers(s, i, acc) ==
    IF i > Len(s) THEN ParseError
    ELSE IF s[i] = "}" /\ acc = <<>> THEN Parsed(MakeObj(acc), i + 1)
    ELSE IF s[i] # Quote1 THEN ParseError
    ELSE LET key == ScanString(s, i + 1, <<>>)
             colon == IF key.ok THEN SkipWs(s, key.next) ELSE 0
             val == IF key.ok /\ colon <= Len(s) /\ s[colon] = ":"
                    THEN ParseValue(s, SkipWs(s, colon + 1))
                    ELSE ParseError
             after == IF val.ok THEN SkipWs(s, val.next) ELSE 0
         IN  IF ~val.ok \/ after > Len(s) THEN ParseError
             ELSE IF s[after] = ","
                  THEN ParseMembers(s, SkipWs(s, after + 1), Append(acc, <<key.v, val.v>>))
             ELSE IF s[after] = "}"
                  THEN Parsed(MakeObj(Append(acc, <<key.v, val.v>>)), after + 1)
             ELSE ParseError

\* the elements of an array from position i on
ParseElements(s, i, acc) ==
    IF i > Len(s) THEN ParseError
    ELSE IF s[i] = "]" /\ acc = <<>> THEN Parsed(JList(acc), i + 1)
    ELSE LET val == ParseValue(s, i)
             after == IF val.ok THEN SkipWs(s, val.next) ELSE 0
         IN  IF ~val.ok \/ after > Len(s) THEN ParseError
             ELSE IF s[after] = ","
                  THEN ParseElements(s, SkipWs(s, after + 1), Append(acc, val.v))
             ELSE IF s[after] = "]"
                  THEN Parsed(JList(Append(acc, val.v)), after + 1)
             ELSE ParseError

\* json.loads(s): one value, with nothing but whitespace around it
Loads(s) ==
    LET val == ParseValue(s, SkipWs(s, 1))
    IN  IF val.ok /\ SkipWs(s, val.next) > Len(s) THEN val ELSE ParseError

\* the part of classify_papers between the completion call and Paper(...):
\* the answer, as ClassifyOutcome reads it, of a call that returned
\* message.content (None, or a text)
ParseContent(content) ==
    IF ~content.has THEN Response("none", JNull)
    ELSE IF content.v = <<>> THEN Response("empty", JNull)
    ELSE LET parsed_data == Loads(RemoveTrailingCommas(ExtractFenced(Strip(content.v))))
         IN  IF parsed_data.ok THEN Response("json", parsed_data.v)
             ELSE Response("garbage", JNull)

(***************************************************************************)
(* Applying the response handling to written responses.                    *)
(*                                                                         *)
(* A response is written from a classification object (its members in      *)
(* order) one member a line, optionally inside a fence, after a sentence   *)
(* of prose, with a comma after the last member, and with an inline        *)
(* comment after the first member whose value is a string.                 *)
(***************************************************************************)
Member(key, value) == [key |-> key, value |-> value]

\* the classification objects written: a full one, one whose venue holds
\* two slashes and that names no topic, one without venue
WrittenObjects ==
    << << Member(<<"a","u","t","h","o","r","s">>, JList(<< JStr(<<"D","o","e">>), JStr(<<"P","o","e">>) >>)),
         Member(<<"v","e","n","u","e">>, JStr(<<"S","O","S","P">>)),
         Member(<<"r","e","l","e","v","a","n","t","_","t","o","p","i","c","s">>, JList(<< JStr(<<"a","b">>) >>)) >>,
      << Member(<<"v","e","n","u","e">>, JStr(<<"a","/","/","b">>)),
         Member(<<"a","u","t","h","o","r","s">>, JList(<< JStr(<<"D","o","e">>) >>)),
         Member(<<"r","e","l","e","v","a","n","t","_","t","o","p","i","c","s">>, JList(<<>>)) >>,
      << Member(<<"t","i","t","l","e">>, JStr(<<"Z","z">>)),
         Member(<<"a","u","t","h","o","r","s">>, JList(<< JStr(<<"D","o","e">>) >>)),
         Member(<<"r","e","l","e","v","a","n","t","_","t","o","p","i","c","s">>, JList(<< JStr(<<"C","d">>), JStr(<<" ","A","b">>) >>)) >> >>

FenceKinds == {"none", "json", "plain"}

\* how a response is written (the object by its number)
Writings ==
    [object : 1..Len(WrittenObjects), fence : FenceKinds, prose : BOOLEAN,
     trailing_comma : BOOLEAN, comment : BOOLEAN]

\* the clean writing of the same object
CleanWriting(w) ==
    [object |-> w.object, fence |-> "none", prose |-> FALSE,
     trailing_comma |-> FALSE, comment |-> FALSE]

InlineComment == <<" ","/","/","c","o","m","m","e","n","t">>

\* the text of a string or of a list of strings
RECURSIVE WriteList(_)
WriteList(xs) ==
    IF xs = <<>> THEN <<>>
    ELSE <<Quote1>> \o xs[1].v \o <<Quote1>>
         \o (IF Len(xs) > 1 THEN <<",", " ">> ELSE <<>>) \o WriteList(Tail(xs))

WriteValue(v) ==
    IF v.t = "str" THEN <<Quote1>> \o v.v \o <<Quote1>>
    ELSE <<"[">> \o WriteList(v.v) \o <<"]">>

\* the line of member n of the object
WriteMember(w, n) ==
    LET members == WrittenObjects[w.object]
        m == members[n]
        firstStr == CHOOSE k \in 1..Len(members) :
                       /\ members[k].value.t = "str"
                       /\ \A j \in 1..(k - 1) : members[j].value.t # "str"
    IN  <<" ", Quote1>> \o m.key \o <<Quote1, ":", " ">> \o WriteValue(m.value)
        \o (IF n < Len(members) \/ w.trailing_comma THEN <<",">> ELSE <<>>)
        \o (IF w.comment /\ n = firstStr THEN InlineComment ELSE <<>>)
        \o <<"\n">>

\* the text of a response
WriteResponse(w) ==
    LET body == <<"{", "\n">>
                \o Join([n \in 1..Len(WrittenObjects[w.object]) |-> WriteMember(w, n)])
                \o <<"}">>
        lead == IF w.prose THEN <<"H","e","r","e",":","\n">> ELSE <<>>
    IN  CASE w.fence = "none" -> lead \o body
          [] w.fence = "json" -> lead \o FenceJson \o <<"\n">> \o body \o <<"\n">> \o Fence
          [] w.fence = "plain" -> lead \o Fence \o <<"\n">> \o body \o <<"\n">> \o Fence \o <<"\n">>

\* the paper the calls are about
AskedPaper ==
    Paper(<<"T","i">>, <<AuthorLine>>, <<"O","n"," ","x">>, <<"u">>, <<>>)

ParseInit ==
    /\ ClassifierAtRest
    /\ step = "in"
    /\ arg \in [writing : Writings]
    /\ ret = <<>>

\* the completion service writes its response, and the clean one
Respond ==
    /\ step = "in"
    /\ arg' = [writing |-> arg.writing,
               content |-> WriteResponse(arg.writing),
               clean |-> WriteResponse(CleanWriting(arg.writing))]
    /\ step' = "text"
    /\ UNCHANGED <<ret, classifyVars, notifyVars, fetchVars, serverVars>>

\* the body of the try block on each of the two texts
HandleResponse ==
    /\ step = "text"
    /\ ret' = [given |-> ClassifyOutcome(AskedPaper, ParseContent(Some(arg.content)),
                                         ResearchTopics),
               clean |-> ClassifyOutcome(AskedPaper, ParseContent(Some(arg.clean)),
                                         ResearchTopics)]
    /\ step' = "out"
    /\ UNCHANGED <<arg, classifyVars, notifyVars, fetchVars, serverVars>>

ParseNext == Respond \/ HandleResponse

ParseSpec == ParseInit /\ [][ParseNext]_vars

\* two outcomes of the try block are the same: both fail, or both append the
\* same (paper, topics) item
SameOutcome(a, b) ==
    /\ a.ok = b.ok
    /\ a.ok => (a.item.paper = b.item.paper /\ a.item.topics = b.item.topics)

\* C14: a response that wraps the classification JSON in a fenced JSON block,
\* has a trailing comma before the closing brace and an inline //comment
\* after a string value produces the same result (same paper, same topics)
\* as the equivalent clean JSON response.
C14_RepairedLikeClean ==
    (step = "out" /\ arg.writing.fence = "json" /\ arg.writing.trailing_comma
                  /\ arg.writing.comment)
        => (ret.clean.ok /\ SameOutcome(ret.given, ret.clean))

(***************************************************************************)
(* SlackNotifier (src/src/scholar_scout/notifications.py): notify_matches  *)
(* and send_weekly_update, one chat_postMessage call at a time.            *)
(***************************************************************************)
MaxResults == 2     \* entries of a paper_results list

\* config.default_channel and config.channel_topics (in the dict's order)
DefaultChannel == <<"#","d","f">>
ChannelTopics ==
    << [channel |-> <<"a","b">>, topics |-> << <<"A","b">> >>],
       [channel |-> <<"c","d">>, topics |-> << <<"C","d">>, <<"E","f">> >>],
       [channel |-> <<"z","z">>, topics |-> <<>>] >>

\* how a chat_postMessage call ends: it returns, or raises SlackApiError (the
\* API answered with an error), or raises what the transport raised (the
\* request never got an answer)
SlackOutcomes == {"ok", "SlackApiError", "URLError"}

\* `except SlackApiError as e`: the exceptions the handler catches
SlackHandlerCatches(outcome) == outcome = "SlackApiError"

\* a notifier that posts everything to the default channel
ChannelOfDefault(topic) == DefaultChannel

\* channel = topic.slack_channel or self.config.default_channel
ChannelOf(topic) ==
    IF topic.slack_channel.has /\ topic.slack_channel.v # <<>>
    THEN topic.slack_channel.v
    ELSE DefaultChannel

\* the first result from i on that has a matched topic (Len + 1 when none)
SkipUnmatched(results, i) ==
    IF \E k \in i..Len(results) : results[k].topics # <<>>
    THEN CHOOSE k \in i..Len(results) :
            results[k].topics # <<>> /\ \A m \in i..(k - 1) : results[m].topics = <<>>
    ELSE Len(results) + 1

\* the (result, topic) the nested loops reach after (i, j)
PairAfter(results, i, j) ==
    IF j < Len(results[i].topics) THEN <<i, j + 1>>
    ELSE <<SkipUnmatched(results, i + 1), 1>>

\* the topics a notifier may be given: with a channel of their own, without,
\* and with an empty one
NotifiedTopics ==
    << ResearchTopic(<<"A","b">>, Some(<<"#","a","b">>)),
       ResearchTopic(<<"C","d">>, None),
       ResearchTopic(<<"E","f">>, Some(<<>>)) >>

MatchedLists ==
    { <<>>, <<NotifiedTopics[1]>>, <<NotifiedTopics[2], NotifiedTopics[1]>>,
      <<NotifiedTopics[3]>> }

NotifiedPapers ==
    { Paper(<<"T","i">>, << <<"D","o","e">> >>, <<"O","n">>, <<"u">>, <<"S">>),
      Paper(<<"T","j">>, << <<"P","o","e">> >>, <<>>, <<>>, <<>>) }

\* the lists notify_matches may be given
ResultLists ==
    UNION {[1..n -> [paper : NotifiedPapers, topics : MatchedLists]] : n \in 0..MaxResults}

\* the dicts send_weekly_update may be given (their items, in order)
TopicDigests ==
    { <<>>,
      << [topic |-> <<"A","b">>, titles |-> << <<"T","i">> >>] >>,
      << [topic |-> <<"C","d">>, titles |-> << <<"T","i">>, <<"T","j">> >>],
         [topic |-> <<"A","b">>, titles |-> << <<"T","j">> >>] >>,
      << [topic |-> <<"Z","z">>, titles |-> << <<"T","i">> >>] >> }

NotifyInit ==
    /\ ClassifierAtRest
    /\ arg = <<>> /\ ret = <<>> /\ step = "in"

\* notify_matches(paper_results): return at once on an empty list, else enter
\* the loops (a result without matched topics gives no iteration)
NotifyMatches(results) ==
    /\ npc = "idle"
    /\ paper_results' = results
    /\ ni' = SkipUnmatched(results, 1)
    /\ nj' = 1
    /\ npc' = IF SkipUnmatched(results, 1) > Len(results) THEN "returned_matches"
              ELSE "matches"
    /\ UNCHANGED <<papers_by_topic, posted, logged, classifyVars, fnVars,
                 fetchVars, serverVars>>

\* one iteration of `for topic in matched_topics`: the message is posted; a
\* failure the handler catches is logged and the loops go on, any other
\* leaves notify_matches
PostMessage(outcome) ==
    /\ npc = "matches"
    /\ LET paper == paper_results[ni].paper
           topic == paper_results[ni].topics[nj]
           channel == ChannelOf(topic)
           after == PairAfter(paper_results, ni, nj)
           goes_on == outcome = "ok" \/ SlackHandlerCatches(outcome)
       IN  /\ posted' = Append(posted, [channel |-> channel, topic |-> topic.name,
                                        about |-> paper.title, outcome |-> outcome])
           /\ logged' = IF SlackHandlerCatches(outcome) THEN Append(logged, channel)
                        ELSE logged
           /\ ni' = IF goes_on THEN after[1] ELSE ni
           /\ nj' = IF goes_on THEN after[2] ELSE nj
           /\ npc' = IF ~goes_on THEN "raised_matches"
                     ELSE IF after[1] > Len(paper_results) THEN "returned_matches"
                     ELSE "matches"
    /\ UNCHANGED <<paper_results, papers_by_topic, classifyVars, fnVars,
                 fetchVars, serverVars>>

\* send_weekly_update(papers_by_topic)
SendWeeklyUpdate(digests) ==
    /\ npc = "idle"
    /\ papers_by_topic' = digests
    /\ ni' = 1
    /\ npc' = IF ChannelTopics = <<>> THEN "returned_weekly" ELSE "weekly"
    /\ UNCHANGED <<paper_results, nj, posted, logged, classifyVars, fnVars,
                 fetchVars, serverVars>>

\* channel_papers: the items of papers_by_topic whose topic the channel lists
ChannelPapers(digests, topics) ==
    SelectSeq(digests, LAMBDA d : \E k \in 1..Len(topics) : topics[k] = d.topic)

\* one iteration of `for channel, topics in self.config.channel_topics.items()`
PostDigest(outcome) ==
    /\ npc = "weekly"
    /\ LET channel == <<"#">> \o ChannelTopics[ni].channel
           goes_on == outcome = "ok" \/ SlackHandlerCatches(outcome)
       IN  /\ posted' = Append(posted,
                               [channel |-> channel, topic |-> <<>>,
                                about |-> ChannelPapers(papers_by_topic,
                                                        ChannelTopics[ni].topics),
                                outcome |-> outcome])
           /\ logged' = IF SlackHandlerCatches(outcome) THEN Append(logged, channel)
                        ELSE logged
           /\ ni' = IF goes_on THEN ni + 1 ELSE ni
           /\ npc' = IF ~goes_on THEN "raised_weekly"
                     ELSE IF ni + 1 > Len(ChannelTopics) THEN "returned_weekly"
                     ELSE "weekly"
    /\ UNCHANGED <<paper_results, papers_by_topic, nj, classifyVars, fnVars,
                 fetchVars, serverVars>>

NotifyNext ==
    \/ \E results \in ResultLists : NotifyMatches(results)
    \/ \E outcome \in SlackOutcomes : PostMessage(outcome)
    \/ \E digests \in TopicDigests : SendWeeklyUpdate(digests)
    \/ \E outcome \in SlackOutcomes : PostDigest(outcome)

NotifySpec == NotifyInit /\ [][NotifyNext]_vars

\* the (paper, topic) pairs of a result list, in result order and then topic
\* order
RECURSIVE PairsFrom(_, _)
PairsFrom(results, i) ==
    IF i > Len(results) THEN <<>>
    ELSE [j \in 1..Len(results[i].topics) |->
             [paper |-> results[i].paper, topic |-> results[i].topics[j]]]
         \o PairsFrom(results, i + 1)

\* C18: a delivery failure for one message, whatever its kind, is never
\* raised to the caller of notify_matches or send_weekly_update, and the
\* delivery of every remaining message or digest is still attempted.
C18_DeliveryFailureNeverRaised ==
    /\ npc \notin {"raised_matches", "raised_weekly"}
    /\ Len(logged) = Len(SelectSeq(posted, LAMBDA m : m.outcome # "ok"))
    /\ npc = "returned_matches" => Len(posted) = Len(PairsFrom(paper_results, 1))
    /\ npc = "returned_weekly" => Len(posted) = Len(ChannelTopics)

\* C19: notify_matches posts one message per (paper, matched topic) pair, in
\* result order and then topic order, to the topic's own channel or, when
\* the topic has none, to the default channel: what was posted so far is the
\* head of the list of pairs, and all of it once notify_matches returns; an
\* empty result list, or results without matched topics, post nothing.
C19_OneMessagePerPair ==
    npc \in {"matches", "returned_matches", "raised_matches"} =>
        LET pairs == PairsFrom(paper_results, 1)
        IN  /\ Len(posted) <= Len(pairs)
            /\ \A k \in 1..Len(posted) :
                  /\ posted[k].topic = pairs[k].topic.name
                  /\ posted[k].about = pairs[k].paper.title
                  /\ posted[k].channel =
                        IF pairs[k].topic.slack_channel \in {None, Some(<<>>)}
                        THEN DefaultChannel
                        ELSE pairs[k].topic.slack_channel.v
            /\ npc = "returned_matches" => Len(posted) = Len(pairs)
            /\ (\A i \in 1..Len(paper_results) : paper_results[i].topics = <<>>)
                  => (posted = <<>> /\ npc = "returned_matches")

\* notify_matches returned after three messages for two results: the first
\* to the default channel (its delivery failed with an API error), the second
\* to the topic's own channel, the third for a topic whose channel is empty
C19_Witness ==
    /\ npc = "returned_matches"
    /\ Len(paper_results) = 2
    /\ Len(paper_results[1].topics) = 2 /\ Len(paper_results[2].topics) = 1
    /\ Len(posted) = 3
    /\ posted[1].outcome = "SlackApiError"
    /\ posted[1].channel = DefaultChannel
    /\ posted[2].channel = <<"#","a","b">>
    /\ paper_results[2].topics[1].slack_channel = Some(<<>>)
    /\ posted[3].channel = DefaultChannel
    /\ posted[3].about # posted[1].about

(***************************************************************************)
(* EmailClient (src/src/scholar_scout/email_client.py): the subject test   *)
(* of _should_process_email, with email.header.decode_header as the        *)
(* standard library computes it, and the loop of fetch_scholar_alerts.     *)
(***************************************************************************)
MaxFound == 2       \* message numbers one search of the folder returns

\* str.lstrip()
LStrip(s) ==
    LET keep == {i \in 1..Len(s) : ~IsSpace(s[i])}
    IN  IF keep = {} THEN <<>>
        ELSE SubSeq(s, CHOOSE i \in keep : \A j \in keep : i <= j, Len(s))

\* str.isspace(): at least one character, all of them whitespace
IsAllSpace(s) == s # <<>> /\ \A i \in 1..Len(s) : IsSpace(s[i])

\* email.header.ecre matched at position i of s:
\*   =\?(?P<charset>[^?]*?)\?(?P<encoding>[qQbB])\?(?P<encoded>.*?)\?=
\* the charset runs to the next question mark, the payload to the next "?="
EncodedWordAt(s, i) ==
    LET no == [ok |-> FALSE, charset |-> <<>>, encoding |-> "", encoded |-> <<>>,
               next |-> i]
        qs == {c \in (i + 2)..Len(s) : s[c] = "?"}
    IN  IF i + 1 > Len(s) \/ s[i] # "=" \/ s[i + 1] # "?" \/ qs = {} THEN no
        ELSE LET c == CHOOSE x \in qs : \A y \in qs : x <= y
                 ends == {e \in (c + 3)..(Len(s) - 1) : s[e] = "?" /\ s[e + 1] = "="}
             IN  IF c + 2 > Len(s) \/ s[c + 1] \notin {"q", "Q", "b", "B"}
                       \/ s[c + 2] # "?" \/ ends = {}
                 THEN no
                 ELSE LET e == CHOOSE x \in ends : \A y \in ends : x <= y
                      IN  [ok |-> TRUE, charset |-> SubSeq(s, i + 2, c - 1),
                           encoding |-> s[c + 1],
                           encoded |-> SubSeq(s, c + 3, e - 1), next |-> e + 2]

\* ecre.search(header)
HasEncodedWord(s) == \E i \in 1..Len(s) : EncodedWordAt(s, i).ok

\* the words of decode_header, read from position i of a one-line header: the
\* unencoded text before each encoded word (left-stripped at the start of the
\* line, left out when empty) and the encoded word with its encoding and
\* charset in lower case
RECURSIVE Words(_, _, _)
Words(s, i, first) ==
    LET starts == {k \in i..Len(s) : EncodedWordAt(s, k).ok}
        k == IF starts = {} THEN Len(s) + 1
             ELSE CHOOSE x \in starts : \A y \in starts : x <= y
        before == SubSeq(s, i, k - 1)
        unencoded == IF first THEN LStrip(before) ELSE before
        plain == IF unencoded = <<>> THEN <<>>
                 ELSE <<[text |-> unencoded, encoding |-> "", charset |-> <<>>]>>
    IN  IF starts = {} THEN plain
        ELSE LET w == EncodedWordAt(s, k)
             IN  plain \o <<[text |-> w.encoded, encoding |-> LowerChar(w.encoding),
                             charset |-> Lower(w.charset)]>>
                       \o Words(s, w.next, FALSE)

\* decode_header's droplist: a word that is whitespace between two encoded
\* words is removed
DropBlanks(words) ==
    LET dropped(d) == /\ d >= 2 /\ d + 1 <= Len(words)
                      /\ words[d + 1].encoding # "" /\ words[d - 1].encoding # ""
                      /\ IsAllSpace(words[d].text)
        kept == {d \in 1..Len(words) : ~dropped(d)}
        nth(n) == CHOOSE d \in kept : Cardinality({x \in kept : x < d}) = n - 1
    IN  [n \in 1..Cardinality(kept) |-> words[nth(n)]]

\* email.quoprimime.header_decode: "_" is a space, =XX with two hex digits is
\* the byte XX, any other "=" is kept
RECURSIVE HeaderDecodeQ(_)
HeaderDecodeQ(s) ==
    IF s = <<>> THEN <<>>
    ELSE IF s[1] = "=" /\ Len(s) >= 3 /\ IsHex(s[2]) /\ IsHex(s[3])
         THEN <<Chr(16 * HexVal(s[2]) + HexVal(s[3]))>>
                  \o HeaderDecodeQ(SubSeq(s, 4, Len(s)))
         ELSE <<(IF s[1] = "_" THEN " " ELSE s[1])>> \o HeaderDecodeQ(Tail(s))

\* the base64 alphabet, value 0 first
B64Alphabet == <<"A","B","C","D","E","F","G","H","I","J","K","L","M","N","O","P",
                 "Q","R","S","T","U","V","W","X","Y","Z","a","b","c","d","e","f",
                 "g","h","i","j","k","l","m","n","o","p","q","r","s","t","u","v",
                 "w","x","y","z","0","1","2","3","4","5","6","7","8","9","+","/">>

B64Val(c) == (CHOOSE i \in 1..Len(B64Alphabet) : B64Alphabet[i] = c) - 1

\* the bytes of the base64 digits s, four digits to three bytes; two or three
\* closing digits give one or two bytes
RECURSIVE B64Bytes(_)
B64Bytes(s) ==
    IF Len(s) < 2 THEN <<>>
    ELSE LET v(n) == IF n <= Len(s) THEN B64Val(s[n]) ELSE 0
             three == << v(1) * 4 + v(2) \div 16,
                         (v(2) % 16) * 16 + v(3) \div 4,
                         (v(3) % 4) * 64 + v(4) >>
         IN  IF Len(s) >= 4 THEN three \o B64Bytes(SubSeq(s, 5, Len(s)))
             ELSE SubSeq(three, 1, Len(s) - 1)

\* decode_header on a "b" word: the missing padding is added and
\* email.base64mime.decode applied; one digit more than a multiple of four
\* is binascii.Error, raised as HeaderParseError.  (Payloads of this model
\* hold base64 digits only.)
HeaderDecodeB(s) ==
    IF Len(s) % 4 = 1 THEN [ok |-> FALSE, text |-> <<>>]
    ELSE LET bytes == B64Bytes(s)
         IN  [ok |-> TRUE, text |-> [n \in 1..Len(bytes) |-> Chr(bytes[n])]]

\* charsets Python has a codec for, among those the subjects of this model name
KnownCharsets == { <<"u","t","f","-","8">>,
                   <<"i","s","o","-","8","8","5","9","-","1">> }

\* one word of decode_header decoded by `part.decode(encoding or "utf-8",
\* errors="replace")`: ok is false where decode_header or the codec lookup
\* raises.  (The bytes are decoded one by one, so decode_header's joining of
\* neighbouring words of one charset changes nothing here.)
DecodeWord(w) ==
    IF w.encoding = "" THEN [ok |-> TRUE, text |-> w.text]
    ELSE IF w.charset # <<>> /\ w.charset \notin KnownCharsets
         THEN [ok |-> FALSE, text |-> <<>>]
    ELSE IF w.encoding = "q" THEN [ok |-> TRUE, text |-> HeaderDecodeQ(w.text)]
    ELSE HeaderDecodeB(w.text)

\* a subject test that matches on the header as it came
SubjectDecodedNever(subject) == subject

\* subject_decoded of _should_process_email: the header as it is when it
\* holds no encoded word, the decoded words joined otherwise, and the header
\* as it is when anything raised (`except Exception`)
SubjectDecoded(subject) ==
    IF ~HasEncodedWord(subject) THEN subject
    ELSE LET words == DropBlanks(Words(subject, 1, TRUE))
             parts == [n \in 1..Len(words) |-> DecodeWord(words[n])]
         IN  IF \E n \in 1..Len(parts) : ~parts[n].ok THEN subject
             ELSE Join([n \in 1..Len(parts) |-> parts[n].text])

\* EmailClient._should_process_email(email_message) under the configured
\* target subjects
ShouldProcessEmail(email_message, targets) ==
    LET subject == IF email_message.subject.has THEN email_message.subject.v
                   ELSE <<>>
    IN  IF subject = <<>> THEN FALSE
        ELSE \E t \in 1..Len(targets) :
                 Contains(targets[t], SubjectDecoded(subject))

\* an encoded word as a header carries it
EncodedWord(charset, encoding, encoded) ==
    <<"=","?">> \o charset \o <<"?", encoding, "?">> \o encoded \o <<"?","=">>

Utf8 == <<"u","t","f","-","8">>

\* the folder: message number n is Mailbox[n].  One message without a
\* Subject header, one with an empty one, plain subjects, subjects in
\* RFC 2047 encoded words (Q and base64, one in two words), and three that
\* do not decode (a charset without codec, a base64 word of one digit, an
\* encoded word that is not closed)
Mailbox ==
    << [subject |-> None],
       [subject |-> Some(<<>>)],
       [subject |-> Some(<<"N","e","w"," ","a","r","t">>)],
       [subject |-> Some(<<"O","l","d"," ","n","e","w","s">>)],
       [subject |-> Some(EncodedWord(Utf8, "q", <<"N","e","w","_","a","r","t">>))],
       [subject |-> Some(EncodedWord(<<"U","T","F","-","8">>, "Q", <<"N","=","6","5","w">>)
                         \o <<" ">> \o EncodedWord(Utf8, "q", <<"_","a","r","t">>))],
       [subject |-> Some(<<" ","R","e",":"," ">>
                         \o EncodedWord(Utf8, "b", <<"Y","X","J","0">>))],
       [subject |-> Some(EncodedWord(<<"x","-","z","z">>, "q", <<"a","r","t">>))],
       [subject |-> Some(EncodedWord(Utf8, "b", <<"Y">>))],
       [subject |-> Some(<<"=","?","u","t","f","-","8","?","q","?","a","r">>)] >>

\* email_filter.subject of config/search_criteria.yml: no entry, one or two
\* entries, an entry that is a piece of the encoded form only, an empty entry
TargetLists ==
    { <<>>,
      << <<"a","r","t">> >>,
      << <<"N","e","w"," ","a","r","t">> >>,
      << <<"Z","z">>, <<"w"," ","a">> >>,
      << <<"u","t","f">> >>,
      << <<>> >> }

\* what a search of the folder may return
FoundSets == {f \in SUBSET (1..Len(Mailbox)) : Cardinality(f) <= MaxFound}

\* how self.mail.fetch(num, "(RFC822)") may end: OK with the message, a
\* status other than OK, OK with data that is not a list of (header, bytes)
FetchOutcomes == {"OK", "NO", "malformed"}

FetchInit ==
    /\ processed_titles = {} /\ processed_urls = {}
    /\ email_messages = <<>> /\ ei = 0 /\ papers = <<>> /\ pj = 0
    /\ filtered_papers = <<>> /\ pk = 0 /\ all_results = <<>> /\ pc = "idle"
    /\ survivors = <<>> /\ issued = <<>> /\ sent = <<>>
    /\ last_response = None /\ last_filter = None /\ accepted = {}
    /\ repeat = FALSE /\ prev_count = 0
    /\ arg = <<>> /\ ret = <<>> /\ step = "in"
    /\ paper_results = <<>> /\ papers_by_topic = <<>> /\ ni = 0 /\ nj = 0
    /\ posted = <<>> /\ logged = <<>> /\ npc = "idle"
    /\ target_subjects \in TargetLists
    /\ all_message_numbers = {} /\ examined = <<>> /\ emails = <<>>
    /\ fpc = "idle"
    /\ delete_result = "none" /\ delete_commands = <<>>
    /\ ServerAtRest

\* fetch_scholar_alerts up to its loop: the folder is selected (a status
\* other than OK returns []), the base search fills all_message_numbers, and
\* when that is empty (or the search failed) the searches by subject do
SearchFolder(select_ok, base_ok, base, by_subject) ==
    /\ fpc = "idle"
    /\ LET found == IF base_ok /\ base # {} THEN base
                    ELSE IF target_subjects = <<>> THEN {}
                    ELSE by_subject
       IN  /\ all_message_numbers' = IF select_ok THEN found ELSE {}
           /\ fpc' = IF select_ok /\ found # {} THEN "fetch" ELSE "returned"
    /\ examined' = <<>>
    /\ emails' = <<>>
    /\ UNCHANGED <<target_subjects, delete_result, delete_commands, classifyVars,
                   fnVars, notifyVars, serverVars>>

\* the message numbers the loop has still to reach
Pending == all_message_numbers \ {examined[n].num : n \in 1..Len(examined)}

\* one iteration of `for num in all_message_numbers` (a set: any order): the
\* message is fetched; a failed or malformed fetch is skipped, a fetched
\* message is appended when _should_process_email says so
FetchMessage(num, outcome) ==
    /\ fpc = "fetch"
    /\ num \in Pending
    /\ LET email_message == Mailbox[num]
           process == outcome = "OK" /\ ShouldProcessEmail(email_message, target_subjects)
       IN  /\ examined' = Append(examined, [num |-> num, outcome |-> outcome,
                                            process |-> process])
           /\ emails' = IF process THEN Append(emails, num) ELSE emails
    /\ fpc' = IF Pending = {num} THEN "returned" ELSE "fetch"
    /\ UNCHANGED <<target_subjects, all_message_numbers, delete_result,
                   delete_commands, classifyVars, fnVars, notifyVars,
                   serverVars>>

\* the methods class EmailClient defines
EmailClientMethods ==
    {"__init__", "__enter__", "__exit__", "_build_email_search_query",
     "_should_process_email", "fetch_scholar_alerts"}

\* `email_client.<name>()` on a connected client, outside a running fetch: a
\* name the class does not define raises AttributeError before anything is
\* sent to the server
CallMethod(name) ==
    /\ fpc \in {"idle", "returned"}
    /\ delete_result = "none"
    /\ name \notin EmailClientMethods
    /\ delete_result' = "AttributeError"
    /\ delete_commands' = <<>>
    /\ UNCHANGED <<target_subjects, all_message_numbers, examined, emails, fpc,
                   classifyVars, fnVars, notifyVars, serverVars>>

\* email_client.delete_old_emails(), as _tool_run_pipeline and the deletion
\* test call it
DeleteOldEmails == CallMethod("delete_old_emails")

FetchNext ==
    \/ \E select_ok \in BOOLEAN, base_ok \in BOOLEAN :
           \E base \in (IF select_ok /\ base_ok THEN FoundSets ELSE {{}}) :
               \E by_subject \in (IF select_ok /\ base = {} THEN FoundSets ELSE {{}}) :
                   SearchFolder(select_ok, base_ok, base, by_subject)
    \/ \E num \in 1..Len(Mailbox), outcome \in FetchOutcomes :
           FetchMessage(num, outcome)
    \/ DeleteOldEmails

FetchSpec == FetchInit /\ [][FetchNext]_vars

\* what the subject of each message of the folder says: the text its encoded
\* words stand for, and the header itself where it holds none or does not
\* decode
Reads ==
    << <<>>,
       <<>>,
       Mailbox[3].subject.v,
       Mailbox[4].subject.v,
       <<"N","e","w"," ","a","r","t">>,
       <<"N","e","w"," ","a","r","t">>,
       <<"R","e",":"," ","a","r","t">>,
       Mailbox[8].subject.v,
       Mailbox[9].subject.v,
       Mailbox[10].subject.v >>

\* the message has a non-empty subject that contains a target subject
SubjectMatches(num) ==
    /\ Mailbox[num].subject.has
    /\ Mailbox[num].subject.v # <<>>
    /\ \E t \in 1..Len(target_subjects) : Contains(target_subjects[t], Reads[num])

\* C20: _should_process_email is true of a fetched message exactly when its
\* subject is non-empty and, as decoded, contains one of the configured
\* target subjects; a message without subject or with an empty one is never
\* processed; and the emails fetch_scholar_alerts collects are exactly the
\* fetched messages for which it is true, in the order they were fetched.
C20_ProcessedIffSubjectMatches ==
    /\ \A n \in 1..Len(examined) :
           examined[n].process <=>
               (examined[n].outcome = "OK" /\ SubjectMatches(examined[n].num))
    /\ \A n \in 1..Len(emails) :
           /\ SubjectMatches(emails[n])
           /\ emails[n] \notin {1, 2}
    /\ LET taken == SelectSeq(examined, LAMBDA e : e.process)
       IN  emails = [n \in 1..Len(taken) |-> taken[n].num]

\* a finished call that fetched the message whose subject comes in two
\* encoded words and the message without subject, and returned the first only
C20_Witness ==
    /\ fpc = "returned"
    /\ all_message_numbers = {1, 6}
    /\ \A n \in 1..Len(examined) : examined[n].outcome = "OK"
    /\ target_subjects = << <<"N","e","w"," ","a","r","t">> >>
    /\ emails = <<6>>

\* the IMAP commands of a deletion of old messages: the folder selected
\* read-write, the search for the messages dated before the cut-off day, the
\* \Deleted flag stored on them, the expunge
DeletionCommands == <<"select readonly=False", "search BEFORE", "store +FLAGS Deleted",
                      "expunge">>

\* C21: delete_old_emails, called on a connected client, selects the folder
\* read-write, searches for the messages dated before the cut-off day, flags
\* them deleted and expunges them, in that order.
C21_DeleteSelectsSearchesFlagsExpunges ==
    delete_result # "none" =>
        (delete_result = "returned" /\ delete_commands = DeletionCommands)

(***************************************************************************)
(* The legacy extract_and_classify_papers (src/scholar_classifier.py): the *)
(* comment stripping applied to the fenced content of a response.          *)
(***************************************************************************)
MaxLines == 2       \* lines of one response content

\* the scan of one line from position i: a backslash takes the character
\* after it along, a double quote flips in_string, and the scan stops at a
\* "//" met while in_string is off
RECURSIVE ScanLine(_, _, _, _)
ScanLine(line, i, in_string, cleaned_line) ==
    IF i > Len(line) THEN [cleaned_line |-> cleaned_line, in_string |-> in_string]
    ELSE IF line[i] = "BACKSLASH" /\ i + 1 <= Len(line)
         THEN ScanLine(line, i + 2, in_string, cleaned_line \o <<line[i], line[i + 1]>>)
    ELSE LET flipped == IF line[i] = "DQUOTE" THEN ~in_string ELSE in_string
         IN  IF ~flipped /\ line[i] = "/" /\ i + 1 <= Len(line) /\ line[i + 1] = "/"
             THEN [cleaned_line |-> cleaned_line, in_string |-> flipped]
             ELSE ScanLine(line, i + 1, flipped, Append(cleaned_line, line[i]))

\* `for line in lines`: in_string is set before the loop and kept from one
\* line to the next; a cleaned line is kept when cleaned_line.strip() is
\* not empty
RECURSIVE CleanedLines(_, _)
CleanedLines(lines, in_string) ==
    IF lines = <<>> THEN <<>>
    ELSE LET scanned == ScanLine(Head(lines), 1, in_string, <<>>)
         IN  (IF Strip(scanned.cleaned_line) # <<>> THEN <<scanned.cleaned_line>>
              ELSE <<>>)
                 \o CleanedLines(Tail(lines), scanned.in_string)

\* "\n".join(lines)
RECURSIVE JoinLines(_)
JoinLines(lines) ==
    IF lines = <<>> THEN <<>>
    ELSE IF Len(lines) = 1 THEN lines[1]
    ELSE lines[1] \o <<"\n">> \o JoinLines(Tail(lines))

\* content = "\n".join(cleaned_lines) of content.split("\n")
StripComments(content) == JoinLines(CleanedLines(Split(content, "\n"), FALSE))

\* lines a response may hold: a member whose string value holds "//", a
\* member followed by a comment, a comment that holds a double quote, a
\* string with an escaped quote before "//", a member whose string is not
\* closed, a line of blanks, an empty line, a member without comment
ResponseLines ==
    << <<"DQUOTE","u","DQUOTE",":","DQUOTE","h",":","/","/","g","DQUOTE",",">>,
       <<"DQUOTE","n","DQUOTE",":","1",","," ","/","/","c">>,
       <<"/","/"," ","a"," ","DQUOTE","b">>,
       <<"DQUOTE","BACKSLASH","DQUOTE","/","/","DQUOTE",","," ","/","/","c">>,
       <<"DQUOTE","t","DQUOTE",":","DQUOTE","x">>,
       <<" "," ">>,
       <<>>,
       <<"DQUOTE","n","DQUOTE",":","2">> >>

\* the contents: one to MaxLines lines
Contents ==
    {JoinLines([n \in 1..Len(pick) |-> ResponseLines[pick[n]]]) :
        pick \in UNION {[1..k -> 1..Len(ResponseLines)] : k \in 1..MaxLines}}

StripInit ==
    /\ ClassifierAtRest
    /\ arg \in Contents /\ ret = <<>> /\ step = "in"

ApplyStrip ==
    /\ step = "in"
    /\ ret' = StripComments(arg)
    /\ step' = "out"
    /\ UNCHANGED <<arg, classifyVars, notifyVars, fetchVars, serverVars>>

StripNext == ApplyStrip

StripSpec == StripInit /\ [][StripNext]_vars

\* the character at i of the line follows an odd run of backslashes
EscapedAt(line, i) ==
    LET run == {k \in 0..(i - 1) : \A j \in (i - k)..(i - 1) : line[j] = "BACKSLASH"}
        longest == CHOOSE k \in run : \A m \in run : m <= k
    IN  longest % 2 = 1

\* the position lies outside every double-quoted string of its line: an even
\* number of unescaped double quotes stands before it
OutsideString(line, i) ==
    Cardinality({j \in 1..(i - 1) : line[j] = "DQUOTE" /\ ~EscapedAt(line, j)}) % 2 = 0

\* the line without its comment: cut at the first "//" outside a string
WithoutComment(line) ==
    LET starts == {i \in 1..(Len(line) - 1) :
                      /\ line[i] = "/" /\ line[i + 1] = "/"
                      /\ ~EscapedAt(line, i) /\ OutsideString(line, i)}
    IN  IF starts = {} THEN line
        ELSE SubSeq(line, 1, (CHOOSE i \in starts : \A j \in starts : i <= j) - 1)

\* C23: the stripping removes on each line exactly the text from the first
\* "//" outside a double-quoted string to the end of the line, changes no
\* character inside a string literal, and drops the lines left empty.
C23_StripsCommentsOutsideStringsOnly ==
    step = "out" =>
        LET lines == Split(arg, "\n")
            cut == [n \in 1..Len(lines) |-> WithoutComment(lines[n])]
        IN  ret = JoinLines(SelectSeq(cut, LAMBDA l : Strip(l) # <<>>))

\* the last call was answered with JSON whose classification object is an
\* object
ObjectAnswered ==
    /\ sent # <<>> /\ last_response.has
    /\ last_response.v.kind = "json"
    /\ ~(last_response.v.value.t = "list" /\ last_response.v.value.v = <<>>)
    /\ ObjectOf(last_response.v).t = "dict"

\* C24 as claimed: a classification object that lacks title, authors,
\* abstract, link or relevant_topics makes classify_papers skip the paper.
C24_MissingRequiredFieldSkips ==
    (ObjectAnswered
        /\ (RequiredFields \ {"venue"}) \ DOMAIN ObjectOf(last_response.v).v # {})
        => /\ ~Last(sent).ok
           /\ \A i \in 1..Len(all_results) :
                  all_results[i].paper.title # Last(sent).paper.title

\* C24 as amended: a classification object that lacks authors makes
\* classify_papers skip the paper; one that holds a list of author names is
\* returned whether or not it holds title, abstract, link or
\* relevant_topics (without relevant_topics, with no topic), provided its
\* venue and relevant_topics, where present, are of a usable type.
C24_OnlyMissingAuthorsSkips ==
    ObjectAnswered =>
        LET o == ObjectOf(last_response.v).v
        IN  /\ "authors" \notin DOMAIN o =>
                  /\ ~Last(sent).ok
                  /\ \A i \in 1..Len(all_results) :
                         all_results[i].paper.title # Last(sent).paper.title
            /\ ("authors" \in DOMAIN o /\ GoodAnswer(last_response.v)) =>
                  /\ Last(sent).ok
                  /\ Last(all_results).paper.title = Last(sent).paper.title
                  /\ "relevant_topics" \notin DOMAIN o =>
                         Last(all_results).topics = <<>>

\* a paper was returned on a classification object that holds authors and
\* title only, in a call over one email
C24_Witness ==
    /\ ObjectAnswered
    /\ Len(email_messages) = 1
    /\ DOMAIN ObjectOf(last_response.v).v = {"authors", "title"}
    /\ Last(sent).ok
    /\ Last(all_results).topics = <<>>
    /\ Last(all_results).paper.title = Last(sent).paper.title

\* C28: a paper's keys are in the seen-sets from the filtering step on, before
\* its completion call is issued; so a paper let through once, whether or
\* not its classification then failed, is rejected as a duplicate whenever a
\* later filtering step of the same instance meets it, and a later call over
\* the same batch issues no completion call at all.
C28_KeysAddedBeforeCallSoFailedNeverRetried ==
    /\ \A n \in 1..Len(filtered_papers) :
           /\ Strip(Lower(filtered_papers[n].title)) \in processed_titles
           /\ Strip(Lower(filtered_papers[n].url)) # <<>>
                  => Strip(Lower(filtered_papers[n].url)) \in processed_urls
    /\ \A n \in 1..Len(issued) :
           Strip(Lower(issued[n].paper.title)) \in processed_titles
    /\ last_filter.has =>
           (last_filter.v.paper \in last_filter.v.accepted
                => last_filter.v.decision = "duplicate")
    /\ repeat => (issued = <<>> /\ survivors = <<>>)

\* the second of two calls over the same batch has ended: the first let
\* papers through and returned none of them (every classification failed),
\* and the second rejected them as duplicates without a completion call
C28_Witness ==
    /\ pc = "done" /\ repeat
    /\ prev_count = 0
    /\ accepted # {}
    /\ last_filter.has /\ last_filter.v.decision = "duplicate"
    /\ last_filter.v.paper \in last_filter.v.accepted
    /\ issued = <<>>

\* two papers collide: the same title key, or the same non-empty url key
KeysCollide(a, b) ==
    \/ Strip(Lower(a.title)) = Strip(Lower(b.title))
    \/ (Strip(Lower(a.url)) # <<>> /\ Strip(Lower(a.url)) = Strip(Lower(b.url)))

\* C29: over all the calls of one instance no two results have the same
\* normalized title or the same non-empty normalized url: a candidate is let
\* through only if it collides with none let through before, every
\* completion call and every result is for a candidate let through, and
\* within a call no two calls and no two results collide.
C29_NoTwoResultsShareAKey ==
    /\ last_filter.has =>
           (last_filter.v.decision = "kept"
                => \A a \in last_filter.v.accepted : ~KeysCollide(a, last_filter.v.paper))
    /\ \A a, b \in accepted : a # b => ~KeysCollide(a, b)
    /\ \A n \in 1..Len(issued) : issued[n].paper \in accepted
    /\ \A m, n \in 1..Len(issued) : m # n => ~KeysCollide(issued[m].paper, issued[n].paper)
    /\ \A n \in 1..Len(all_results) :
           \E a \in accepted : /\ a.title = all_results[n].paper.title
                               /\ a.url = all_results[n].paper.url
    /\ \A m, n \in 1..Len(all_results) :
           m # n => ~KeysCollide(all_results[m].paper, all_results[n].paper)

\* a call over two emails, with results from the first, has just rejected a
\* candidate of the second whose url key is that of a paper let through from
\* the first while their titles differ
C29_Witness ==
    /\ pc = "filter" /\ ei = 2
    /\ Len(email_messages) = 2
    /\ Len(all_results) >= 1
    /\ last_filter.has /\ last_filter.v.decision = "duplicate"
    /\ \E a \in last_filter.v.accepted :
           /\ Strip(Lower(a.title)) # Strip(Lower(last_filter.v.paper.title))
           /\ Strip(Lower(a.url)) = Strip(Lower(last_filter.v.paper.url))
           /\ Strip(Lower(a.url)) # <<>>

(***************************************************************************)
(* ScholarScoutMCPServer (src/src/scholar_scout/mcp_server.py): one server *)
(* process on one event loop.  A request runs without interruption up to   *)
(* its next `await loop.run_in_executor(...)`; while its blocking work     *)
(* runs in the thread pool the loop serves other requests.                 *)
(***************************************************************************)
MaxCalls == 2       \* requests the process takes
MaxTicks == 2       \* times the clock is seen to advance

\* return age > 300  # 5 minutes
StaleAfter == 300

\* the seconds between two readings of the clock that differ: two of them
\* make a timestamp stale, one does not
Tick == StaleAfter \div 2 + 1

NoTime == [has |-> FALSE, v |-> 0]
AtTime(t) == [has |-> TRUE, v |-> t]

\* what email_client.fetch_scholar_alerts() may return to a refresh
Fetched == {<<>>, <<Email1>>}

\* what the completion service answers during one classification, as
\* positions in Answers: the full object to every call, or an error to every
\* call
BatchAnswers == {10, 1}

\* _is_cache_stale(): no timestamp, or one more than 300 seconds old
IsCacheStale(timestamp, clock) ==
    IF ~timestamp.has THEN TRUE ELSE clock - timestamp.v > StaleAfter

\* a registry of one classifier for the whole process
SharedClassifier(count) == 1

\* classifier = ScholarClassifier(self.config): the instance constructed by
\* the count-th-plus-one execution of that statement
NewClassifier(count) == count + 1

\* ScholarClassifier.__init__: both sets of keys start empty
ConstructedKeys == [titles |-> {}, urls |-> {}]

\* body(x) for x the value of e, e being evaluated once
Bind(e, body(_)) == CHOOSE r \in {body(x) : x \in {e}} : TRUE

\* one iteration of the filtering loop of classify_papers, on the instance's
\* sets and the list filtered_papers
FilterOne(acc, paper) ==
    LET decision == FilterDecision(paper, acc.titles, acc.urls)
    IN  [kept |-> IF decision = "kept" THEN Append(acc.kept, paper) ELSE acc.kept,
         titles |-> TitlesAfter(paper, acc.titles, decision),
         urls |-> UrlsAfter(paper, acc.urls, decision)]

\* the filtering loop over the records of one email, from the j-th on
RECURSIVE FilterFrom(_, _, _)
FilterFrom(candidates, j, acc) ==
    IF j > Len(candidates) THEN acc
    ELSE Bind(FilterOne(acc, candidates[j]),
              LAMBDA next : FilterFrom(candidates, j + 1, next))

\* the classification loop over the filtered records of one email, the
\* completion service answering resp to every call
RECURSIVE ClassifyFrom(_, _, _)
ClassifyFrom(filtered, k, resp) ==
    IF k > Len(filtered) THEN <<>>
    ELSE Bind(ClassifyOutcome(filtered[k], resp, ResearchTopics),
              LAMBDA out : IF out.ok THEN <<out.item>> ELSE <<>>)
             \o ClassifyFrom(filtered, k + 1, resp)

\* classify_papers(email_messages) from the i-th email to its return, on an
\* instance whose sets hold keys
RECURSIVE ClassifyPapersFrom(_, _, _, _)
ClassifyPapersFrom(messages, i, keys, resp) ==
    IF i > Len(messages) THEN <<>>
    ELSE Bind(Bind(ExtractPaperMetadata(GetEmailContent(messages[i])),
                   LAMBDA candidates :
                       FilterFrom(candidates, 1,
                                  [kept |-> <<>>, titles |-> keys.titles,
                                   urls |-> keys.urls])),
              LAMBDA f :
                  ClassifyFrom(f.kept, 1, resp)
                      \o ClassifyPapersFrom(messages, i + 1,
                                            [titles |-> f.titles, urls |-> f.urls],
                                            resp))

\* classify_papers(messages) on an instance just constructed, for each list
\* a refresh may return and each answer
ClassifyPapers ==
    [messages \in Fetched |->
        [n \in BatchAnswers |->
            ClassifyPapersFrom(messages, 1, ConstructedKeys, Answers[n])]]

\* an executor that reads the attribute when the thread runs
ExecutorArgumentAtRun(at_submit, at_run) == at_run

\* loop.run_in_executor(None, f, self._email_cache): the argument is the
\* list the attribute names when the call is made, whatever the attribute
\* names later
ExecutorArgument(at_submit, at_run) == at_submit

\* the keys of papers_by_topic built from a list of results
TopicsNotified(items) ==
    UNION {{items[i].topics[k].name : k \in 1..Len(items[i].topics)} :
              i \in 1..Len(items)}

\* one entry of the text a tool returns
Step(name, n) == [step |-> name, n |-> n]

\* the emails a response lists, and how long before it they were fetched
NotServed == [has |-> FALSE, emails |-> <<>>, age |-> 0]
Served(cache, clock) ==
    [has |-> TRUE, emails |-> cache.emails, age |-> clock - cache.fetched_at]

\* a request as it arrives: its tool (read_emails stands for reading the
\* resource scholar://emails/list), its first argument (force_refresh,
\* fetch_first or delete_old_emails) and weekly_update
NewTask(tool, flag, weekly) ==
    [tool |-> tool, pc |-> "running", flag |-> flag, weekly |-> weekly,
     fetched |-> None, given |-> <<>>, instance |-> 0, classified |-> None,
     notified |-> <<>>, results |-> <<>>, served |-> NotServed]

\* the requests a client may send; run_pipeline's arguments default to true
Requests ==
    {[tool |-> "read_emails", flag |-> FALSE, weekly |-> FALSE]}
        \cup {[tool |-> "fetch_emails", flag |-> f, weekly |-> FALSE] : f \in BOOLEAN}
        \cup {[tool |-> "classify_papers", flag |-> f, weekly |-> FALSE] : f \in BOOLEAN}
        \cup {[tool |-> "run_pipeline", flag |-> f, weekly |-> w] : f, w \in BOOLEAN}

\* await self._refresh_email_cache(): the fetch is handed to the thread pool
AwaitRefresh(task) == [task EXCEPT !.pc = "refreshing"]

\* classifier = ScholarClassifier(self.config);
\* await loop.run_in_executor(None, classifier.classify_papers, self._email_cache)
AwaitClassify(task, cache, count) ==
    [task EXCEPT !.pc = "classifying", !.given = cache,
                 !.instance = NewClassifier(count)]

\* _tool_classify_papers after `if fetch_first`
ClassifyCached(task, cache, count) ==
    IF cache = <<>>
    THEN [task EXCEPT !.pc = "returned", !.results = <<Step("no emails", 0)>>]
    ELSE AwaitClassify(task, cache, count)

\* _tool_run_pipeline from the return of its refresh to its next await: the
\* fetch is reported, delete_old_emails is called when asked for, and the
\* cached emails are classified when there are any
PipelineAfterFetch(task, cache, count) ==
    LET s1 == [task EXCEPT !.results = <<Step("fetched", Len(cache))>>]
    IN  IF task.flag /\ "delete_old_emails" \notin EmailClientMethods
        THEN [s1 EXCEPT !.pc = "raised"]
        ELSE LET s2 == IF task.flag
                       THEN [s1 EXCEPT !.results = Append(@, Step("deleted", 0))]
                       ELSE s1
             IN  IF cache # <<>> THEN AwaitClassify(s2, cache, count)
                 ELSE [s2 EXCEPT !.pc = "returned",
                                 !.results = Append(@, Step("nothing to classify", 0))]

\* a task has just constructed a classifier
Constructs(before, after) ==
    after.pc = "classifying" /\ before.pc # "classifying"

ServerInit ==
    /\ ClassifierAtRest
    /\ arg = <<>> /\ ret = <<>> /\ step = "in"

\* a request arrives and runs to its first await or to its return
StartCall(tool, flag, weekly) ==
    /\ Len(tasks) < MaxCalls
    /\ LET task == NewTask(tool, flag, weekly)
           cache == email_cache.emails
           stale == IsCacheStale(cache_timestamp, now)
           serve == [task EXCEPT !.pc = "returned", !.served = Served(email_cache, now)]
           next == CASE tool = "read_emails" ->
                            IF cache = <<>> \/ stale THEN AwaitRefresh(task) ELSE serve
                     [] tool = "fetch_emails" ->
                            IF ~flag /\ ~stale /\ cache # <<>> THEN serve
                            ELSE AwaitRefresh(task)
                     [] tool = "classify_papers" ->
                            IF flag THEN AwaitRefresh(task)
                            ELSE ClassifyCached(task, cache, classifiers)
                     [] tool = "run_pipeline" -> AwaitRefresh(task)
       IN  /\ tasks' = Append(tasks, next)
           /\ classifiers' = IF Constructs(task, next) THEN classifiers + 1
                             ELSE classifiers
    /\ UNCHANGED <<email_cache, paper_cache, cache_timestamp, now,
                   classifyVars, fnVars, notifyVars, fetchVars>>

\* the fetch of task t returns: _refresh_email_cache stores the list and the
\* time, and the request goes on to its next await or to its return
FinishRefresh(t, fetched) ==
    /\ tasks[t].pc = "refreshing"
    /\ email_cache' = [emails |-> fetched, fetched_at |-> now]
    /\ cache_timestamp' = AtTime(now)
    /\ LET task == [tasks[t] EXCEPT !.fetched = Some(fetched)]
           cache == email_cache'.emails
           next == CASE task.tool \in {"read_emails", "fetch_emails"} ->
                            [task EXCEPT !.pc = "returned",
                                         !.served = Served(email_cache', now)]
                     [] task.tool = "classify_papers" ->
                            ClassifyCached(task, cache, classifiers)
                     [] task.tool = "run_pipeline" ->
                            PipelineAfterFetch(task, cache, classifiers)
       IN  /\ tasks' = [tasks EXCEPT ![t] = next]
           /\ classifiers' = IF Constructs(task, next) THEN classifiers + 1
                             ELSE classifiers
    /\ UNCHANGED <<paper_cache, now,
                   classifyVars, fnVars, notifyVars, fetchVars>>

\* the classification of task t returns: the results and the time are
\* stored, and run_pipeline goes on to its notifications
FinishClassify(t, n) ==
    /\ tasks[t].pc = "classifying"
    /\ LET messages == ExecutorArgument(tasks[t].given, email_cache.emails)
           items == ClassifyPapers[messages][n]
           task == [tasks[t] EXCEPT !.given = messages, !.classified = Some(items)]
           done == Step("classified", Len(items))
           next == IF task.tool = "classify_papers"
                   THEN [task EXCEPT !.pc = "returned", !.results = <<done>>]
                   ELSE IF paper_cache' # <<>>
                   THEN [task EXCEPT !.pc = "notifying", !.notified = paper_cache',
                                     !.results = Append(@, done)]
                   ELSE [task EXCEPT !.pc = "returned",
                                     !.results = @ \o <<done, Step("no papers to notify", 0)>>]
       IN  /\ paper_cache' = items
           /\ tasks' = [tasks EXCEPT ![t] = next]
    /\ cache_timestamp' = AtTime(now)
    /\ UNCHANGED <<email_cache, now, classifiers,
                   classifyVars, fnVars, notifyVars, fetchVars>>

\* the notifier called by task t returns: run_pipeline reports the topics of
\* its weekly update, or the length self._paper_cache has by then
FinishNotify(t) ==
    /\ tasks[t].pc = "notifying"
    /\ LET n == IF tasks[t].weekly
                THEN Cardinality(TopicsNotified(tasks[t].notified))
                ELSE Len(paper_cache)
       IN  tasks' = [tasks EXCEPT ![t].pc = "returned",
                                  ![t].results = Append(@, Step("notified", n))]
    /\ UNCHANGED <<email_cache, paper_cache, cache_timestamp, now, classifiers,
                   classifyVars, fnVars, notifyVars, fetchVars>>

\* datetime.now() moves on
Advance ==
    /\ now < MaxTicks * Tick
    /\ now' = now + Tick
    /\ UNCHANGED <<email_cache, paper_cache, cache_timestamp, tasks, classifiers,
                   classifyVars, fnVars, notifyVars, fetchVars>>

ServerNext ==
    \/ \E r \in Requests : StartCall(r.tool, r.flag, r.weekly)
    \/ \E t \in 1..Len(tasks), fetched \in Fetched : FinishRefresh(t, fetched)
    \/ \E t \in 1..Len(tasks), n \in BatchAnswers : FinishClassify(t, n)
    \/ \E t \in 1..Len(tasks) : FinishNotify(t)
    \/ Advance

ServerSpec == ServerInit /\ [][ServerNext]_vars

(***************************************************************************)
(* Claims about the MCP server.                                            *)
(***************************************************************************)
\* the steps a tool's text names, in order
StepNames(results) == [i \in 1..Len(results) |-> results[i].step]

\* a request that has come to its end, by a return or by an exception
Ended(task) == task.pc \in {"returned", "raised"}

\* a run_pipeline call with its default arguments
DefaultPipeline(task) == task.tool = "run_pipeline" /\ task.flag /\ task.weekly

\* C22: a run_pipeline call with its default arguments that has ended has
\* returned; with emails fetched its text names, in this order, the fetch,
\* the deletion, the classification and the notification (or that there is
\* no paper to notify); with no email fetched its text names the fetch, the
\* deletion and that there is nothing to classify, and nothing was handed to
\* the notifier.
C22_DefaultPipelineRunsItsSteps ==
    \A t \in 1..Len(tasks) :
        (DefaultPipeline(tasks[t]) /\ Ended(tasks[t])) =>
            /\ tasks[t].pc = "returned"
            /\ tasks[t].fetched.has
            /\ IF tasks[t].fetched.v = <<>>
               THEN /\ StepNames(tasks[t].results)
                           = <<"fetched", "deleted", "nothing to classify">>
                    /\ tasks[t].notified = <<>>
               ELSE StepNames(tasks[t].results)
                        \in {<<"fetched", "deleted", "classified", "notified">>,
                             <<"fetched", "deleted", "classified", "no papers to notify">>}

\* C25: two requests whose classify_papers batches run in the thread pool at
\* the same time run them on two ScholarClassifier instances; every batch
\* runs on an instance the server has constructed.
C25_NoInstanceRunsTwoBatchesAtOnce ==
    /\ \A s, t \in 1..Len(tasks) :
           (s # t /\ tasks[s].pc = "classifying" /\ tasks[t].pc = "classifying")
               => tasks[s].instance # tasks[t].instance
    /\ \A t \in 1..Len(tasks) :
           tasks[t].pc = "classifying" => tasks[t].instance \in 1..classifiers

\* a classify_papers call and a run_pipeline call have their batches in the
\* thread pool at the same time
C25_Witness ==
    \E s, t \in 1..Len(tasks) :
        /\ tasks[s].tool = "classify_papers" /\ tasks[s].pc = "classifying"
        /\ tasks[t].tool = "run_pipeline" /\ tasks[t].pc = "classifying"

\* the titles of the papers a request's classification returned
TitlesReturned(task) ==
    {task.classified.v[i].paper.title : i \in 1..Len(task.classified.v)}

\* C26: of two classify_papers or run_pipeline calls of one server process
\* that classified the same emails, the later returns no paper the earlier
\* returned.
C26_NoPaperReturnedAgainByALaterCall ==
    \A s, t \in 1..Len(tasks) :
        (s < t /\ tasks[s].classified.has /\ tasks[t].classified.has
               /\ tasks[s].given = tasks[t].given)
            => TitlesReturned(tasks[s]) \cap TitlesReturned(tasks[t]) = {}

\* C27: the emails a response of the emails/list resource or of fetch_emails
\* lists were fetched at most 300 seconds before the response.
C27_ServedEmailsFetchedWithinFiveMinutes ==
    \A t \in 1..Len(tasks) :
        tasks[t].served.has => tasks[t].served.age <= StaleAfter

\* C30: a run_pipeline call hands to classify_papers the list its own
\* refresh fetched, and to the notifier the results its own classification
\* returned, whatever other requests stored in the caches meanwhile.
C30_PipelineUsesItsOwnEmailsAndPapers ==
    \A t \in 1..Len(tasks) :
        tasks[t].tool = "run_pipeline" =>
            /\ tasks[t].instance # 0 =>
                   (tasks[t].fetched.has /\ tasks[t].given = tasks[t].fetched.v)
            /\ tasks[t].pc = "notifying" \/ tasks[t].notified # <<>> =>
                   (tasks[t].classified.has
                        /\ tasks[t].notified = tasks[t].classified.v)

\* a run_pipeline call has sent its notifications and returned although
\* another request's classification replaced the paper cache between its
\* own classification and its return
C30_Witness ==
    \E t \in 1..Len(tasks) :
        /\ tasks[t].tool = "run_pipeline" /\ tasks[t].pc = "returned"
        /\ tasks[t].notified # <<>>
        /\ paper_cache # tasks[t].notified

====
